---- MODULE Spec2Model ----
(***************************************************************************)
(* Bio/SeqIO/QualityIO.py: the FASTQ tokenizer (FastqGeneralIterator), the *)
(* three dialect readers built on it, the QUAL reader, the three FASTQ    *)
(* writers, the QUAL writer, the two scale conversions and the paired      *)
(* FASTA/QUAL iterator.                                                    *)
(*                                                                         *)
(* A Python string is a sequence of code points (a character is the       *)
(* number ord() gives), so ord()/chr() arithmetic is computed.  A line as  *)
(* readline() returns it ends with NL; the empty string is end of file.    *)
(***************************************************************************)
EXTENDS Integers, Sequences, FiniteSets, TLC

VARIABLES handle, open, last_read, pc, line, title_line, seq_string,
          quality_string, out, nyield, err,
          reader, title2ids, writer, wrap, resolved, scores_read, sent, f_iter, q_iter,
          file

vars == <<handle, open, last_read, pc, line, title_line, seq_string,
          quality_string, out, nyield, err,
          reader, title2ids, writer, wrap, resolved, scores_read, sent, f_iter, q_iter, file>>

(* ---------------------------- characters ------------------------------ *)
AT == 64
PLUS == 43
NL == 10
SPACE == 32
LetterA == 97
\* string.whitespace, what str.strip()/rstrip()/split() remove
Whitespace == {9, 10, 11, 12, 13, 32}

SANGER_SCORE_OFFSET == 33
SOLEXA_SCORE_OFFSET == 64

(* ------------------------------ bounds -------------------------------- *)
\* longest sequence text and quality text the input stream builds up
MaxLen == 2
\* records an iterator yields before its input stream ends
MaxRecords == 2

\* characters of the input stream
Chars == {AT, PLUS, SPACE}

Strs(S, n) == UNION {[1..k -> S] : k \in 0..n}

\* lines of the input stream: the blank line and every line of one or two
\* characters
Lines ==
    {<<NL>>} \cup {<<c, NL>> : c \in Chars}
             \cup {<<c, d, NL>> : c \in Chars, d \in Chars}

(* --------------------------- str methods ------------------------------ *)
RECURSIVE rstrip(_)
rstrip(s) ==
    IF s = <<>> THEN <<>>
    ELSE IF s[Len(s)] \in Whitespace THEN rstrip(SubSeq(s, 1, Len(s) - 1))
    ELSE s

RECURSIVE lstrip(_)
lstrip(s) ==
    IF s = <<>> THEN <<>>
    ELSE IF s[1] \in Whitespace THEN lstrip(Tail(s))
    ELSE s

strip(s) == lstrip(rstrip(s))

\* s[1:]
From1(s) == SubSeq(s, 2, Len(s))

\* the first word of s.split(): defined when s has a non-whitespace character
RECURSIVE TakeWord(_)
TakeWord(s) ==
    IF s = <<>> \/ s[1] \in Whitespace THEN <<>>
    ELSE <<s[1]>> \o TakeWord(Tail(s))

HasWord(s) == lstrip(s) # <<>>

FirstWord(s) == TakeWord(lstrip(s))

(* ------------------------------ errors -------------------------------- *)
NoError == [kind |-> "none", msg |-> <<>>]

Error(k, m) == [kind |-> k, msg |-> m]

(* --------------------------- input stream ----------------------------- *)
\* handle.readline() on text h: up to and including the first NL, the rest
\* of h when it holds no NL, the empty string at end of file
LineEnd(h) ==
    IF \E i \in 1..Len(h) : h[i] = NL
    THEN CHOOSE i \in 1..Len(h) : h[i] = NL /\ \A j \in 1..(i - 1) : h[j] # NL
    ELSE Len(h)

readline(h) == SubSeq(h, 1, LineEnd(h))

\* a readline() that leaves the position in the file where it was
AfterLine_Same(h) == h

AfterLine(h) == SubSeq(h, LineEnd(h) + 1, Len(h))

\* What the next handle.readline() can return.  handle is the text already
\* in the file and not yet read; while open, the stream may deliver any
\* further line, or end; it ends once MaxRecords records have been yielded.
ReadChoices ==
    IF handle # <<>> THEN {readline(handle)}
    ELSE IF open /\ nyield < MaxRecords THEN Lines \cup {<<>>}
    ELSE {<<>>}

\* the stream after readline() returned l (kept in last_read); end of file
\* is final
Consume(l) ==
    /\ last_read' = l
    /\ handle' = IF handle # <<>> THEN AfterLine(handle) ELSE handle
    /\ open' = (open /\ l # <<>>)

(* --------------------------- dialect readers -------------------------- *)
Min(q) == CHOOSE m \in {q[i] : i \in 1..Len(q)} : \A i \in 1..Len(q) : m <= q[i]

Max(q) == CHOOSE m \in {q[i] : i \in 1..Len(q)} : \A i \in 1..Len(q) : m >= q[i]

\* a decoding that forgets the offset
Qualities_NoOffset(quality, offset) == quality

\* [ord(letter)-offset for letter in quality_string]
Qualities(quality, offset) == [i \in 1..Len(quality) |-> quality[i] - offset]

SeqRecord(seq, id, name, descr, key, qualities) ==
    [seq |-> seq, id |-> id, name |-> name, description |-> descr,
     letter_annotations |-> (key :> qualities)]

Yield(v) == [ok |-> TRUE, value |-> v, err |-> NoError]

Raise(e) == [ok |-> FALSE, value |-> <<>>, err |-> e]

\* a range check that takes 93 for too high
PhredOutOfRange_Off(qualities) ==
    qualities # <<>> /\ (Min(qualities) < 0 \/ Max(qualities) >= 93)

\* qualities and (min(qualities) < 0 or max(qualities) > 93)
PhredOutOfRange(qualities) ==
    qualities # <<>> /\ (Min(qualities) < 0 \/ Max(qualities) > 93)

\* qualities and min(qualities) < -5
SolexaOutOfRange(qualities) ==
    qualities # <<>> /\ Min(qualities) < -5

\* The title2ids argument of a reader is None ("None") or a function of the
\* caller ("callback").  The function modelled returns the whole title as id
\* and name and an empty description, which the default never does.
Callback(title) == <<title, title, <<>>>>

\* a title parser that takes the whole title for the id
DefaultIds_WholeId(title) ==
    IF ~HasWord(title) THEN Raise(Error("IndexError", <<title>>))
    ELSE Yield(<<title, title, title>>)

\* descr = title_line; id = descr.split()[0]; name = id.  split()[0] raises
\* IndexError on a title without a word.
DefaultIds(title) ==
    IF ~HasWord(title) THEN Raise(Error("IndexError", <<title>>))
    ELSE Yield(<<FirstWord(title), FirstWord(title), title>>)

\* id, name, descr = title2ids(title_line)
CalledIds(title) ==
    IF title2ids # "None" THEN Yield(Callback(title)) ELSE DefaultIds(title)

\* id, name, descr = title_line: the string itself is unpacked, which gives
\* its three characters, or ValueError when it has not exactly three
UnpackedIds(title) ==
    IF title2ids = "None" THEN DefaultIds(title)
    ELSE IF Len(title) = 3 THEN Yield(<<<<title[1]>>, <<title[2]>>, <<title[3]>>>>)
    ELSE Raise(Error("ValueError", <<"values to unpack", title>>))

\* One pass of the loop body of each reader on a triple of the tokenizer:
\* the record yielded, or the exception raised.
FastqPhredIterator(title, seq, quality) ==
    LET ids == CalledIds(title)
        qualities == Qualities(quality, SANGER_SCORE_OFFSET)
    IN  IF ~ids.ok THEN ids
        ELSE IF PhredOutOfRange(qualities)
        THEN Raise(Error("OutOfRange", <<"sanger">>))
        ELSE Yield(SeqRecord(seq, ids.value[1], ids.value[2], ids.value[3],
                             "phred_quality", qualities))

FastqSolexaIterator(title, seq, quality) ==
    LET ids == UnpackedIds(title)
        qualities == Qualities(quality, SOLEXA_SCORE_OFFSET)
    IN  IF ~ids.ok THEN ids
        ELSE IF SolexaOutOfRange(qualities)
        THEN Raise(Error("OutOfRange", <<"solexa", Min(qualities)>>))
        ELSE Yield(SeqRecord(seq, ids.value[1], ids.value[2], ids.value[3],
                             "solexa_quality", qualities))

FastqIlluminaIterator(title, seq, quality) ==
    LET ids == CalledIds(title)
        qualities == Qualities(quality, SOLEXA_SCORE_OFFSET)
    IN  IF ~ids.ok THEN ids
        ELSE IF PhredOutOfRange(qualities)
        THEN Raise(Error("OutOfRange", <<"illumina">>))
        ELSE Yield(SeqRecord(seq, ids.value[1], ids.value[2], ids.value[3],
                             "phred_quality", qualities))

Readers == {"general", "sanger", "solexa", "illumina"}

\* What the iterator in use hands to its caller for a triple the tokenizer
\* yields: the triple itself, or the dialect reader's record or exception.
ReaderStep(r, title, seq, quality) ==
    CASE r = "general"  -> Yield([title |-> title, sequence |-> seq, quality |-> quality])
      [] r = "sanger"   -> FastqPhredIterator(title, seq, quality)
      [] r = "solexa"   -> FastqSolexaIterator(title, seq, quality)
      [] r = "illumina" -> FastqIlluminaIterator(title, seq, quality)

(* ------------------------ FastqGeneralIterator ------------------------ *)
\* pc is the place the generator is at: before one of its five readline()
\* calls ("skip", "seq1", "seqloop", "qual1", "qualloop"), suspended at its
\* yield ("yielded"), returned ("stopped") or left by an exception ("error").

seq_len == Len(seq_string)

\* a failure that resynchronises: the generator goes back to looking for a
\* header line
Fail_Resync(e) ==
    /\ pc' = "skip"
    /\ err' = e
    /\ out' = <<>>
    /\ UNCHANGED nyield

Fail(e) ==
    /\ pc' = "error"
    /\ err' = e
    /\ out' = <<>>
    /\ UNCHANGED nyield

\* top of the record loop: the header check and the title
BeginRecord(l) ==
    IF l[1] # AT
    THEN Fail(Error("MalformedRecord", <<"Records in Fastq files should start with '@' character">>))
         /\ UNCHANGED title_line
    ELSE /\ title_line' = rstrip(From1(l))
         /\ pc' = "seq1"
         /\ out' = <<>>
         /\ UNCHANGED <<err, nyield>>

\* a skip loop that takes any line with text on it for a header
StartsRecord_AnyText(l) == strip(l) # <<>>

\* line[0] == "@": the line that ends the skip loop
StartsRecord(l) == l[1] = AT

\* the loop that skips text before the first record
SkipLine ==
    /\ pc = "skip"
    /\ \E l \in ReadChoices :
        /\ Consume(l)
        /\ line' = l
        /\ IF l = <<>>
           THEN pc' = "stopped" /\ UNCHANGED <<title_line, out, nyield, err>>
           ELSE IF StartsRecord(l)
           THEN BeginRecord(l)
           ELSE UNCHANGED <<pc, title_line, out, nyield, err>>
    /\ UNCHANGED <<seq_string, quality_string,
                   reader, title2ids, writer, wrap, resolved, scores_read, sent, f_iter, q_iter, file>>

\* a first sequence line on which a "+" is taken for the "+" line of a
\* record without sequence
SeqFirst_Marker ==
    /\ pc = "seq1"
    /\ \E l \in ReadChoices :
        /\ Consume(l)
        /\ IF l # <<>> /\ l[1] = PLUS
           THEN seq_string' = <<>> /\ pc' = "qual1"
           ELSE seq_string' = rstrip(l) /\ pc' = "seqloop"
    /\ UNCHANGED <<line, title_line, quality_string, out, nyield, err,
                   reader, title2ids, writer, wrap, resolved, scores_read, sent,
                   f_iter, q_iter, file>>

\* seq_string = handle.readline().rstrip()
SeqFirst ==
    /\ pc = "seq1"
    /\ \E l \in ReadChoices :
        /\ Consume(l)
        /\ seq_string' = rstrip(l)
    /\ pc' = "seqloop"
    /\ UNCHANGED <<line, title_line, quality_string, out, nyield, err,
                   reader, title2ids, writer, wrap, resolved, scores_read, sent, f_iter, q_iter, file>>

\* a repeated title that must always be given
CaptionsDiffer_Strict(second_title, title) ==
    second_title # title

\* second_title and second_title != title_line
CaptionsDiffer(second_title, title) ==
    second_title # <<>> /\ second_title # title

\* more sequence lines, up to the "+" line
SeqMore ==
    /\ pc = "seqloop"
    /\ \E l \in ReadChoices :
        /\ Consume(l)
        /\ line' = l
        /\ IF l = <<>>
           THEN Fail(Error("MalformedRecord", <<"End of file without quality information.">>))
                /\ UNCHANGED seq_string
           ELSE IF l[1] = PLUS
           THEN IF CaptionsDiffer(rstrip(From1(l)), title_line)
                THEN Fail(Error("TitleMismatch", <<"Sequence and quality captions differ.">>))
                     /\ UNCHANGED seq_string
                ELSE pc' = "qual1" /\ UNCHANGED <<seq_string, out, nyield, err>>
           ELSE /\ seq_string' = seq_string \o rstrip(l)
                /\ open => Len(seq_string') <= MaxLen
                /\ UNCHANGED <<pc, out, nyield, err>>
    /\ UNCHANGED <<title_line, quality_string,
                   reader, title2ids, writer, wrap, resolved, scores_read, sent, f_iter, q_iter, file>>

\* quality_string = handle.readline().strip()
QualFirst ==
    /\ pc = "qual1"
    /\ \E l \in ReadChoices :
        /\ Consume(l)
        /\ quality_string' = strip(l)
    /\ pc' = "qualloop"
    /\ UNCHANGED <<line, title_line, seq_string, out, nyield, err,
                   reader, title2ids, writer, wrap, resolved, scores_read, sent, f_iter, q_iter, file>>

\* a quality loop that a blank line ends as well
QualityEnds_Blank(l, quality, slen) ==
    l = <<>> \/ strip(l) = <<>> \/ (l[1] = AT /\ Len(quality) >= slen)

\* a header line is taken only once the quality is longer than the sequence
QualityEnds_Gt(l, quality, slen) ==
    l = <<>> \/ (l[1] = AT /\ Len(quality) > slen)

\* the two breaks of the quality loop: end of file, or a line starting with
\* "@" once len(quality_string) >= seq_len
QualityEnds(l, quality, slen) ==
    l = <<>> \/ (l[1] = AT /\ Len(quality) >= slen)

\* a length check that only notices a quality text that is too short
LengthsDiffer_Short(slen, quality) == slen > Len(quality)

\* a length check that only notices a quality text that is too long
LengthsDiffer_Long(slen, quality) == slen < Len(quality)

\* seq_len != len(quality_string)
LengthsDiffer(slen, quality) == slen # Len(quality)

\* after the quality loop: the length check, then the yield, which hands the
\* triple to the dialect reader when one is in use
CloseRecord ==
    IF LengthsDiffer(seq_len, quality_string)
    THEN Fail(Error("LengthMismatch", <<title_line, seq_len, Len(quality_string)>>))
    ELSE LET r == ReaderStep(reader, title_line, seq_string, quality_string)
         IN  IF r.ok
             THEN /\ out' = <<r.value>>
                  /\ nyield' = nyield + 1
                  /\ pc' = "yielded"
                  /\ UNCHANGED err
             ELSE Fail(r.err)

\* more quality lines, up to the end of the record
QualMore ==
    /\ pc = "qualloop"
    /\ \E l \in ReadChoices :
        /\ Consume(l)
        /\ line' = l
        /\ IF QualityEnds(l, quality_string, seq_len)
           THEN CloseRecord /\ UNCHANGED quality_string
           ELSE /\ quality_string' = quality_string \o rstrip(l)
                /\ open => Len(quality_string') <= MaxLen
                /\ UNCHANGED <<pc, out, nyield, err>>
    /\ UNCHANGED <<title_line, seq_string,
                   reader, title2ids, writer, wrap, resolved, scores_read, sent, f_iter, q_iter, file>>

\* a generator that reads a fresh line when it is pulled again, dropping
\* the line it holds
Resume_Reads ==
    /\ pc = "yielded"
    /\ \E l \in ReadChoices :
        /\ Consume(l)
        /\ line' = l
        /\ IF l = <<>>
           THEN pc' = "stopped" /\ out' = <<>> /\ UNCHANGED <<title_line, nyield, err>>
           ELSE BeginRecord(l)
    /\ UNCHANGED <<seq_string, quality_string,
                   reader, title2ids, writer, wrap, resolved, scores_read, sent,
                   f_iter, q_iter, file>>

\* the caller pulls again: the generator goes on after its yield
Resume ==
    /\ pc = "yielded"
    /\ IF line = <<>>
       THEN pc' = "stopped" /\ out' = <<>> /\ UNCHANGED <<title_line, nyield, err>>
       ELSE BeginRecord(line)
    /\ UNCHANGED <<handle, open, last_read, line, seq_string, quality_string,
                   reader, title2ids, writer, wrap, resolved, scores_read, sent, f_iter, q_iter, file>>

TokenizerNext ==
    \/ SkipLine
    \/ SeqFirst
    \/ SeqMore
    \/ QualFirst
    \/ QualMore
    \/ Resume

\* an iterator (the tokenizer or a dialect reader) on an input stream that
\* may hold any lines
Init ==
    /\ handle = <<>>
    /\ open = TRUE
    /\ last_read = <<>>
    /\ pc = "skip"
    /\ line = <<>>
    /\ title_line = <<>>
    /\ seq_string = <<>>
    /\ quality_string = <<>>
    /\ out = <<>>
    /\ nyield = 0
    /\ err = NoError
    /\ reader \in Readers
    /\ title2ids = "None"
    /\ writer = "None"
    /\ wrap = 0
    /\ resolved = <<>>
    /\ scores_read = <<>>
    /\ sent = <<>>
    /\ f_iter = <<>>
    /\ q_iter = <<>>
    /\ file = <<>>

Next == TokenizerNext

Spec == Init /\ [][Next]_vars

(* ------------------- a dialect reader on its own ---------------------- *)
\* The for loop of a dialect reader over the triples of the tokenizer, the
\* tokenizer taken as a source of any triples it can yield: title without
\* trailing whitespace, sequence and quality of one length, quality without
\* trailing whitespace.

\* quality characters at both ends of each dialect's range: 32/33 and
\* 126/127 (Sanger -1/0, 93/94), 63/64 and 157/158 (Illumina -1/0, 93/94),
\* 58/59 (Solexa -6/-5)
QualChars == {32, 33, 126, 127, 58, 59, 63, 64, 157, 158}

Titles ==
    {<<>>, <<LetterA>>, <<SPACE, LetterA>>, <<LetterA, SPACE, AT>>}

Triples ==
    {<<t, [i \in 1..Len(q) |-> LetterA], q>> :
        t \in Titles, q \in {x \in Strs(QualChars, MaxLen) : rstrip(x) = x}}

\* for title_line, seq_string, quality_string in FastqGeneralIterator(handle)
ReaderNext ==
    /\ pc = "next"
    /\ \E t \in Triples \cup {<<>>} :
        IF t = <<>> \/ nyield >= MaxRecords
        THEN pc' = "stopped" /\ UNCHANGED <<title_line, seq_string, quality_string>>
        ELSE /\ pc' = "decode"
             /\ title_line' = t[1]
             /\ seq_string' = t[2]
             /\ quality_string' = t[3]
    /\ UNCHANGED <<handle, open, last_read, line, out, nyield, err,
                   reader, title2ids, writer, wrap, resolved, scores_read,
                   sent, f_iter, q_iter, file>>

\* the loop body: the record is built, checked and yielded
ReaderBody ==
    /\ pc = "decode"
    /\ LET r == ReaderStep(reader, title_line, seq_string, quality_string)
       IN  IF r.ok
           THEN /\ out' = <<r.value>>
                /\ nyield' = nyield + 1
                /\ pc' = "yielded"
                /\ UNCHANGED err
           ELSE Fail(r.err)
    /\ UNCHANGED <<handle, open, last_read, line, title_line, seq_string,
                   quality_string,
                   reader, title2ids, writer, wrap, resolved, scores_read, sent, f_iter, q_iter, file>>

\* the caller pulls again
ReaderResume ==
    /\ pc = "yielded"
    /\ pc' = "next"
    /\ out' = <<>>
    /\ UNCHANGED <<handle, open, last_read, line, title_line, seq_string,
                   quality_string, nyield, err,
                   reader, title2ids, writer, wrap, resolved, scores_read, sent, f_iter, q_iter, file>>

InitReader ==
    /\ handle = <<>>
    /\ open = FALSE
    /\ last_read = <<>>
    /\ pc = "next"
    /\ line = <<>>
    /\ title_line = <<>>
    /\ seq_string = <<>>
    /\ quality_string = <<>>
    /\ out = <<>>
    /\ nyield = 0
    /\ err = NoError
    /\ reader \in Readers \ {"general"}
    /\ title2ids = "None"
    /\ writer = "None"
    /\ wrap = 0
    /\ resolved = <<>>
    /\ scores_read = <<>>
    /\ sent = <<>>
    /\ f_iter = <<>>
    /\ q_iter = <<>>
    /\ file = <<>>

NextReader ==
    \/ ReaderNext
    \/ ReaderBody
    \/ ReaderResume

SpecReader == InitReader /\ [][NextReader]_vars

\* a dialect reader started with or without a title2ids function
InitTitled ==
    /\ handle = <<>>
    /\ open = FALSE
    /\ last_read = <<>>
    /\ pc = "next"
    /\ line = <<>>
    /\ title_line = <<>>
    /\ seq_string = <<>>
    /\ quality_string = <<>>
    /\ out = <<>>
    /\ nyield = 0
    /\ err = NoError
    /\ reader \in Readers \ {"general"}
    /\ title2ids \in {"None", "callback"}
    /\ writer = "None"
    /\ wrap = 0
    /\ resolved = <<>>
    /\ scores_read = <<>>
    /\ sent = <<>>
    /\ f_iter = <<>>
    /\ q_iter = <<>>
    /\ file = <<>>

SpecTitled == InitTitled /\ [][NextReader]_vars

(* ------------------------- FastqPhredWriter --------------------------- *)
\* A score in a record handed to a writer is a Python int, a Python float
\* (val in thousandths) or None.
PyInt(n) == [type |-> "int", val |-> n]

PyFloat(m) == [type |-> "float", val |-> m]

PyNone == [type |-> "None", val |-> 0]

\* 10*log(10**(solexa_quality/10.0) + 1, 10) in thousandths, for the integer
\* Solexa scores -5..10
PhredFromSolexaTable ==
    [q \in -5..10 |->
        CASE q = -5 -> 1193 [] q = -4 -> 1455 [] q = -3 -> 1764
          [] q = -2 -> 2124 [] q = -1 -> 2539 [] q = 0  -> 3010
          [] q = 1  -> 3539 [] q = 2  -> 4124 [] q = 3  -> 4764
          [] q = 4  -> 5455 [] q = 5  -> 6193 [] q = 6  -> 6973
          [] q = 7  -> 7790 [] q = 8  -> 8639 [] q = 9  -> 9515
          [] q = 10 -> 10414]

\* the same for a float Solexa score m (in thousandths), at the values
\* solexa_quality_from_phred gives for the integer PHRED scores: below 40
\* the values listed, from 40 on the score itself to the thousandth
PhredFromSolexaFloat(m) ==
    IF m >= 40000 THEN m
    ELSE
    CASE m = -5000 -> 1193 [] m = -2329 -> 2000 [] m = -21 -> 3000
      [] m = 1795 -> 4000 [] m = 3349 -> 5000 [] m = 4744 -> 6000
      [] m = 6033 -> 7000 [] m = 7251 -> 8000 [] m = 8416 -> 9000
      [] m = 9542 -> 10000 [] m = 10641 -> 11000 [] m = 11717 -> 12000
      [] m = 12777 -> 13000 [] m = 13824 -> 14000 [] m = 14860 -> 15000
      [] m = 15890 -> 16000 [] m = 16912 -> 17000 [] m = 17931 -> 18000
      [] m = 18945 -> 19000 [] m = 19956 -> 20000 [] m = 20965 -> 21000
      [] m = 21973 -> 22000 [] m = 22978 -> 23000 [] m = 23983 -> 24000
      [] m = 24986 -> 25000 [] m = 25989 -> 26000 [] m = 26991 -> 27000
      [] m = 27993 -> 28000 [] m = 28995 -> 29000 [] m = 29996 -> 30000
      [] m = 30997 -> 31000 [] m = 31997 -> 32000 [] m = 32998 -> 33000
      [] m = 33998 -> 34000 [] m = 34999 -> 35000 [] m = 35999 -> 36000
      [] m = 36999 -> 37000 [] m = 37999 -> 38000 [] m = 38999 -> 39000

\* a conversion that takes a Solexa score for a PHRED score as it is
phred_quality_from_solexa_Same(solexa_quality) ==
    IF solexa_quality.type = "None" THEN PyNone
    ELSE IF solexa_quality.type = "int" THEN PyFloat(1000 * solexa_quality.val)
    ELSE PyFloat(solexa_quality.val)

phred_quality_from_solexa(solexa_quality) ==
    IF solexa_quality.type = "None" THEN PyNone
    ELSE IF solexa_quality.type = "int"
    THEN PyFloat(PhredFromSolexaTable[solexa_quality.val])
    ELSE PyFloat(PhredFromSolexaFloat(solexa_quality.val))

_get_phred_quality(record) ==
    IF "phred_quality" \in DOMAIN record.letter_annotations
    THEN Yield(record.letter_annotations["phred_quality"])
    ELSE IF "solexa_quality" \in DOMAIN record.letter_annotations
    THEN Yield([i \in 1..Len(record.letter_annotations["solexa_quality"]) |->
                phred_quality_from_solexa(record.letter_annotations["solexa_quality"][i])])
    ELSE Raise(Error("MissingScores", <<record.id>>))

\* round(x, 0) of x given in thousandths: to the nearest integer, a tie away
\* from zero
RoundMilli(m) ==
    IF m >= 0 THEN (m + 500) \div 1000 ELSE -((500 - m) \div 1000)

\* int(round(q + offset, 0)) for a score that is not None
ScoreCode(q, offset) ==
    IF q.type = "int" THEN q.val + offset
    ELSE RoundMilli(q.val + 1000 * offset)

\* "".join([chr(int(round(q+offset,0))) for q in qualities]): TypeError on
\* None, ValueError from chr() outside range(256)
QualityStr(qualities, offset) ==
    IF \E i \in 1..Len(qualities) : qualities[i].type = "None"
    THEN Raise(Error("MissingScore", <<"A quality value of None was found">>))
    ELSE IF \E i \in 1..Len(qualities) : ScoreCode(qualities[i], offset) \notin 0..255
    THEN Raise(Error("ValueError", <<"chr() arg not in range(256)">>))
    ELSE Yield([i \in 1..Len(qualities) |-> ScoreCode(qualities[i], offset)])

\* record.seq is None
NoSeq == <<-1>>

\* SequentialSequenceWriter.clean is not in this source file.  The ids and
\* descriptions written here hold no line break and no run of spaces, so
\* the text is written as it is.
clean(text) == text

\* the title a writer composes of id and description
Title(id, description) ==
    IF description # <<>> /\ FirstWord(description) = id THEN description
    ELSE IF description # <<>> THEN id \o <<SPACE>> \o description
    ELSE id

\* a length check that only minds scores that are too few
WrongCount_Fewer(record, qualities_str) == Len(qualities_str) < Len(record.seq)

\* len(qualities_str) != len(record)
WrongCount(record, qualities_str) == Len(qualities_str) # Len(record.seq)

\* the whole of a FASTQ writer's write_record for one offset: the text
\* written to the handle, or the exception raised before anything is written
FastqWrite(record, qualities, offset) ==
    IF ~qualities.ok THEN qualities
    ELSE LET qualities_str == QualityStr(qualities.value, offset)
         IN  IF ~qualities_str.ok THEN qualities_str
             ELSE IF record.seq = NoSeq
             THEN Raise(Error("ValueError", <<"No sequence for record", record.id>>))
             ELSE IF WrongCount(record, qualities_str.value)
             THEN Raise(Error("LengthMismatch",
                              <<record.id, Len(record.seq), Len(qualities_str.value)>>))
             ELSE IF clean(record.description) # <<>> /\ ~HasWord(clean(record.description))
             THEN Raise(Error("IndexError", <<record.description>>))
             ELSE Yield(<<AT>> \o Title(clean(record.id), clean(record.description))
                        \o <<NL>> \o record.seq \o <<NL, PLUS, NL>>
                        \o qualities_str.value \o <<NL>>)

\* a Sanger writer that writes with the Solexa/Illumina offset
FastqPhredWriter_Offset64(record) ==
    FastqWrite(record, _get_phred_quality(record), SOLEXA_SCORE_OFFSET)

\* FastqPhredWriter.write_record
FastqPhredWriter(record) ==
    FastqWrite(record, _get_phred_quality(record), SANGER_SCORE_OFFSET)

(* ------------- records written and read back (Sanger) ----------------- *)
Record(id, description, seq, annotations) ==
    [id |-> id, description |-> description, seq |-> seq,
     letter_annotations |-> annotations]

Phred(scores) == "phred_quality" :> [i \in 1..Len(scores) |-> PyInt(scores[i])]

Letters(n) == [i \in 1..n |-> LetterA]

\* PHRED scores written: both ends of the range and 31, which is written "@"
Scores == {0, 31, 93}

\* ids and descriptions: description equal to the id, starting with the id,
\* empty, another word, ending with a space, and both empty
IdsDescriptions ==
    { <<<<LetterA>>, <<LetterA>>>>,
      <<<<LetterA>>, <<LetterA, SPACE, AT>>>>,
      <<<<LetterA>>, <<>>>>,
      <<<<LetterA>>, <<PLUS>>>>,
      <<<<LetterA>>, <<LetterA, SPACE>>>>,
      <<<<>>, <<>>>> }

\* records handed to the writer: every id and description with one score,
\* every list of scores with one title, a quality line starting with "+",
\* and records the writer refuses (a None score, no scores at all, scores of
\* another length than the sequence) or converts (Solexa scores only)
WRecords ==
    {Record(p[1], p[2], Letters(1), Phred(<<31>>)) : p \in IdsDescriptions}
    \cup {Record(<<LetterA>>, <<LetterA>>, Letters(Len(q)), Phred(q)) :
            q \in Strs(Scores, MaxLen)}
    \cup {Record(<<LetterA>>, <<LetterA>>, Letters(1), Phred(<<10>>)),
          Record(<<LetterA>>, <<LetterA>>, Letters(1), "phred_quality" :> <<PyNone>>),
          Record(<<LetterA>>, <<LetterA>>, Letters(1), <<>>),
          Record(<<LetterA>>, <<LetterA>>, Letters(2), Phred(<<31>>)),
          Record(<<LetterA>>, <<LetterA>>, Letters(1), "solexa_quality" :> <<PyInt(-5)>>)}

\* writer.write_record(record) on the output handle
WriteRecord ==
    /\ pc = "writing"
    /\ Len(sent) < MaxRecords
    /\ \E record \in WRecords :
        LET w == FastqPhredWriter(record)
        IN  IF w.ok
            THEN /\ handle' = handle \o w.value
                 /\ sent' = Append(sent, record)
                 /\ UNCHANGED <<pc, err>>
            ELSE /\ pc' = "write_error"
                 /\ err' = w.err
                 /\ UNCHANGED <<handle, sent>>
    /\ UNCHANGED <<open, last_read, line, title_line, seq_string,
                   quality_string, out, nyield,
                   reader, title2ids, writer, wrap, resolved, scores_read, f_iter, q_iter, file>>

\* the file is closed and FastqPhredIterator is started on it
StartReading ==
    /\ pc = "writing"
    /\ pc' = "skip"
    /\ UNCHANGED <<handle, open, last_read, line, title_line, seq_string,
                   quality_string, out, nyield, err,
                   reader, title2ids, writer, wrap, resolved, scores_read, sent, f_iter, q_iter, file>>

InitRoundTrip ==
    /\ handle = <<>>
    /\ open = FALSE
    /\ last_read = <<>>
    /\ pc = "writing"
    /\ line = <<>>
    /\ title_line = <<>>
    /\ seq_string = <<>>
    /\ quality_string = <<>>
    /\ out = <<>>
    /\ nyield = 0
    /\ err = NoError
    /\ reader = "sanger"
    /\ title2ids = "None"
    /\ writer = "None"
    /\ wrap = 0
    /\ resolved = <<>>
    /\ scores_read = <<>>
    /\ sent = <<>>
    /\ f_iter = <<>>
    /\ q_iter = <<>>
    /\ file = <<>>

NextRoundTrip ==
    \/ WriteRecord
    \/ StartReading
    \/ SkipLine
    \/ SeqFirst
    \/ SeqMore
    \/ QualFirst
    \/ QualMore
    \/ Resume

SpecRoundTrip == InitRoundTrip /\ [][NextRoundTrip]_vars

(* ------------------------- the four writers --------------------------- *)
\* 10*log(10**(phred_quality/10.0) - 1, 10) in thousandths for the integer
\* PHRED scores 1..39; from 40 on the value is the score itself to the
\* thousandth
SolexaFromPhredTable ==
    <<-5868, -2329, -21, 1795, 3349, 4744, 6033, 7251,
      8416, 9542, 10641, 11717, 12777, 13824, 14860, 15890,
      16912, 17931, 18945, 19956, 20965, 21973, 22978, 23983,
      24986, 25989, 26991, 27993, 28995, 29996, 30997, 31997,
      32998, 33998, 34999, 35999, 36999, 37999, 38999>>

\* a conversion without the floor of -5.0
solexa_quality_from_phred_Unfloored(phred_quality) ==
    IF phred_quality.type = "None" THEN PyNone
    ELSE IF phred_quality.val = 0 THEN PyFloat(-5000)
    ELSE IF phred_quality.val <= Len(SolexaFromPhredTable)
    THEN PyFloat(SolexaFromPhredTable[phred_quality.val])
    ELSE PyFloat(1000 * phred_quality.val)

\* for a PHRED score that is None, zero or positive (a negative one raises
\* ValueError, see _get_solexa_quality and ToSolexa)
solexa_quality_from_phred(phred_quality) ==
    IF phred_quality.type = "None" THEN PyNone
    ELSE IF phred_quality.val = 0 THEN PyFloat(-5000)
    ELSE IF phred_quality.val <= Len(SolexaFromPhredTable)
    THEN PyFloat(Max(<<-5000, SolexaFromPhredTable[phred_quality.val]>>))
    ELSE PyFloat(1000 * phred_quality.val)

\* a resolution that converts PHRED scores although Solexa scores are there
_get_solexa_quality_Converting(record) ==
    IF "phred_quality" \in DOMAIN record.letter_annotations
    THEN Yield([i \in 1..Len(record.letter_annotations["phred_quality"]) |->
                solexa_quality_from_phred(record.letter_annotations["phred_quality"][i])])
    ELSE IF "solexa_quality" \in DOMAIN record.letter_annotations
    THEN Yield(record.letter_annotations["solexa_quality"])
    ELSE Raise(Error("MissingScores", <<record.id>>))

\* solexa_quality_from_phred raises ValueError on a negative PHRED score
_get_solexa_quality(record) ==
    IF "solexa_quality" \in DOMAIN record.letter_annotations
    THEN Yield(record.letter_annotations["solexa_quality"])
    ELSE IF "phred_quality" \in DOMAIN record.letter_annotations
    THEN LET phred == record.letter_annotations["phred_quality"]
         IN  IF \E i \in 1..Len(phred) : phred[i].type = "int" /\ phred[i].val < 0
             THEN Raise(Error("ValueError", <<"PHRED qualities must be positive (or zero)">>))
             ELSE Yield([i \in 1..Len(phred) |-> solexa_quality_from_phred(phred[i])])
    ELSE Raise(Error("MissingScores", <<record.id>>))

\* FastqSolexaWriter.write_record
FastqSolexaWriter(record) ==
    FastqWrite(record, _get_solexa_quality(record), SOLEXA_SCORE_OFFSET)

\* FastqIlluminaWriter.write_record
FastqIlluminaWriter(record) ==
    FastqWrite(record, _get_phred_quality(record), SOLEXA_SCORE_OFFSET)

GT == 62

MINUS == 45

DigitZero == 48

\* "%i" % n for an integer n
RECURSIVE Decimal(_)
Decimal(n) ==
    IF n < 0 THEN <<MINUS>> \o Decimal(-n)
    ELSE IF n < 10 THEN <<DigitZero + n>>
    ELSE Decimal(n \div 10) \o <<DigitZero + (n % 10)>>

\* "%i" % round(q,0)
ScoreText(q) ==
    IF q.type = "int" THEN Decimal(q.val) ELSE Decimal(RoundMilli(q.val))

\* " ".join(words)
RECURSIVE Join(_)
Join(words) ==
    IF words = <<>> THEN <<>>
    ELSE IF Len(words) = 1 THEN words[1]
    ELSE words[1] \o <<SPACE>> \o Join(Tail(words))

\* a wrap test that looks at the line only
Fits_LineOnly(text, word, w) == Len(text) < w

\* len(line) + 1 + len(qualities_strs[0]) < self.wrap
Fits(text, word, w) == Len(text) + 1 + Len(word) < w

\* the inner while loop: the line as it is written and the words left
RECURSIVE FillLine(_, _, _)
FillLine(text, words, w) ==
    IF words # <<>> /\ Fits(text, words[1], w)
    THEN FillLine(text \o <<SPACE>> \o words[1], Tail(words), w)
    ELSE <<text, words>>

\* the outer while loop: all lines written for the words
RECURSIVE WrapLines(_, _)
WrapLines(words, w) ==
    IF words = <<>> THEN <<>>
    ELSE LET filled == FillLine(words[1], Tail(words), w)
         IN  filled[1] \o <<NL>> \o WrapLines(filled[2], w)

\* what a call of write_record did: whether it returned, the text it wrote
\* to the handle (before it raised, if it raised), the exception, and its
\* local variable qualities (<<>> if it was never set)
Call(ok, text, e, q) == [ok |-> ok, value |-> text, err |-> e, qualities |-> q]

\* QualPhredWriter.write_record (record2title not given) with self.wrap = w
QualPhredWriter(record, w) ==
    IF clean(record.description) # <<>> /\ ~HasWord(clean(record.description))
    THEN Call(FALSE, <<>>, Error("IndexError", <<record.description>>), <<>>)
    ELSE LET head == <<GT>> \o Title(clean(record.id), clean(record.description)) \o <<NL>>
             qualities == _get_phred_quality(record)
         IN  IF ~qualities.ok THEN Call(FALSE, head, qualities.err, <<>>)
             ELSE IF \E i \in 1..Len(qualities.value) : qualities.value[i].type = "None"
             THEN Call(FALSE, head,
                       Error("MissingScore", <<"A quality value of None was found">>),
                       qualities.value)
             ELSE LET qualities_strs ==
                          [i \in 1..Len(qualities.value) |-> ScoreText(qualities.value[i])]
                  IN  Call(TRUE,
                           head \o (IF w # 0 THEN WrapLines(qualities_strs, w)
                                    ELSE Join(qualities_strs) \o <<NL>>),
                           NoError, qualities.value)

Writers == {"fastq", "fastq-solexa", "fastq-illumina", "qual"}

\* a FASTQ writer's call: nothing is written unless the whole record is
FastqCall(written, qualities) ==
    Call(written.ok, written.value, written.err,
         IF qualities.ok THEN qualities.value ELSE <<>>)

\* write_record of the writer in use
WriterStep(wr, record, w) ==
    CASE wr = "fastq" ->
            FastqCall(FastqPhredWriter(record), _get_phred_quality(record))
      [] wr = "fastq-solexa" ->
            FastqCall(FastqSolexaWriter(record), _get_solexa_quality(record))
      [] wr = "fastq-illumina" ->
            FastqCall(FastqIlluminaWriter(record), _get_phred_quality(record))
      [] wr = "qual" -> QualPhredWriter(record, w)

\* ids and descriptions handed to the writers: those of IdsDescriptions, a
\* description of whitespace only, an empty id with a description, and an
\* id of two words
WriterIdsDescriptions ==
    IdsDescriptions
    \cup { <<<<LetterA>>, <<SPACE>>>>, <<<<>>, <<LetterA>>>>, <<<<LetterA, SPACE, AT>>, <<>>>> }

Solexa(scores) == "solexa_quality" :> [i \in 1..Len(scores) |-> PyInt(scores[i])]

\* the record "a" with the annotations given
Scored(n, annotations) == Record(<<LetterA>>, <<LetterA>>, Letters(n), annotations)

\* records handed to the writers: every id and description with one score;
\* every list of up to three scores 0 and 93; Solexa scores only; both
\* annotations, with different scores; no annotation; a None score alone,
\* after a score, in Solexa scores, and with a sequence of another length;
\* more and fewer scores than letters, and a score chr() refuses with a
\* sequence of another length; scores that are not integers (2.5 and 2.4,
\* -2.5 and -2.4); no sequence
WriterRecords ==
    {Record(p[1], p[2], Letters(1), Phred(<<31>>)) : p \in WriterIdsDescriptions}
    \cup {Scored(Len(q), Phred(q)) : q \in Strs({0, 93}, 3)}
    \cup {Scored(1, Solexa(<<-5>>)),
          Scored(2, Solexa(<<0, 10>>)),
          Scored(1, Phred(<<40>>) @@ Solexa(<<-5>>)),
          Scored(1, <<>>),
          Scored(1, "phred_quality" :> <<PyNone>>),
          Scored(2, "phred_quality" :> <<PyInt(31), PyNone>>),
          Scored(1, "solexa_quality" :> <<PyNone>>),
          Scored(2, "phred_quality" :> <<PyNone>>),
          Scored(2, Phred(<<31>>)),
          Scored(1, Phred(<<31, 0>>)),
          Scored(2, Phred(<<300>>)),
          Scored(2, ("phred_quality" :> <<PyFloat(2500), PyFloat(2400)>>)
                    @@ ("solexa_quality" :> <<PyFloat(-2500), PyFloat(-2400)>>)),
          Record(<<LetterA>>, <<LetterA>>, NoSeq, Phred(<<31>>))}

\* self.wrap: 0 (or None) for no wrapping, or a line length.  Of the score
\* texts written, "0 0" fits a line from 5 on and "93 93" from 7 on.
Wraps == {0, 1, 5, 7}

\* writer.write_record(record); sent holds the records handed to the writer,
\* the last of them the one this call was given
WriteOne(records) ==
    /\ pc = "writing"
    /\ Len(sent) < MaxRecords
    /\ \E record \in records :
        LET call == WriterStep(writer, record, wrap)
        IN  /\ handle' = handle \o call.value
            /\ sent' = Append(sent, record)
            /\ resolved' = call.qualities
            /\ IF call.ok
               THEN UNCHANGED <<pc, err>>
               ELSE pc' = "write_error" /\ err' = call.err
    /\ UNCHANGED <<open, last_read, line, title_line, seq_string, quality_string,
                   out, nyield, reader, title2ids, writer, wrap, scores_read,
                   f_iter, q_iter, file>>

Write == WriteOne(WriterRecords)

InitWriters ==
    /\ handle = <<>>
    /\ open = FALSE
    /\ last_read = <<>>
    /\ pc = "writing"
    /\ line = <<>>
    /\ title_line = <<>>
    /\ seq_string = <<>>
    /\ quality_string = <<>>
    /\ out = <<>>
    /\ nyield = 0
    /\ err = NoError
    /\ reader = "None"
    /\ title2ids = "None"
    /\ writer \in Writers
    /\ wrap \in (IF writer = "qual" THEN Wraps ELSE {0})
    /\ resolved = <<>>
    /\ scores_read = <<>>
    /\ sent = <<>>
    /\ f_iter = <<>>
    /\ q_iter = <<>>
    /\ file = <<>>

NextWriters == Write

SpecWriters == InitWriters /\ [][NextWriters]_vars

(* -------------------------- QualPhredIterator ------------------------- *)
\* pc is the place the generator is at: before the readline() of the loop
\* that skips text ("qskip"), before a readline() of a record's score lines
\* ("qread"), suspended at its yield ("yielded"), returned ("stopped") or
\* left by an exception ("error").  scores_read is its list qualities.

\* UnknownSeq(len(qualities)): as many "?" as there are scores
UnknownSeq(n) == [i \in 1..n |-> 63]

\* line.split()
RECURSIVE SplitWords(_)
SplitWords(text) ==
    IF ~HasWord(text) THEN <<>>
    ELSE <<FirstWord(text)>>
         \o SplitWords(SubSeq(lstrip(text), Len(FirstWord(text)) + 1, Len(lstrip(text))))

\* int(word) takes a run of digits with or without a sign; anything else
\* raises ValueError
IsInt(word) ==
    LET digits == IF word[1] \in {MINUS, PLUS} THEN Tail(word) ELSE word
    IN  digits # <<>> /\ \A i \in 1..Len(digits) : digits[i] \in DigitZero..(DigitZero + 9)

RECURSIVE DigitsValue(_)
DigitsValue(digits) ==
    IF digits = <<>> THEN 0
    ELSE 10 * DigitsValue(SubSeq(digits, 1, Len(digits) - 1))
         + (digits[Len(digits)] - DigitZero)

IntOf(word) ==
    IF word[1] = MINUS THEN -DigitsValue(Tail(word))
    ELSE IF word[1] = PLUS THEN DigitsValue(Tail(word))
    ELSE DigitsValue(word)

\* a reader that takes every line up to the end of the file for scores
EndsScores_AtEof(l) == l = <<>>

\* if not line : break / if line[0] == ">": break
EndsScores(l) == l = <<>> \/ l[1] = GT

\* top of the record loop: the header check and the title; the scores start
\* empty
QualBegin(l) ==
    IF l[1] # GT
    THEN Fail(Error("MalformedRecord", <<"Records in Fasta files should start with '>' character">>))
         /\ UNCHANGED <<title_line, scores_read>>
    ELSE IF ~CalledIds(rstrip(From1(l))).ok
    THEN Fail(CalledIds(rstrip(From1(l))).err) /\ UNCHANGED <<title_line, scores_read>>
    ELSE /\ title_line' = rstrip(From1(l))
         /\ scores_read' = <<>>
         /\ pc' = "qread"
         /\ out' = <<>>
         /\ UNCHANGED <<err, nyield>>

\* the loop that skips text before the first record
QualSkip ==
    /\ pc = "qskip"
    /\ \E l \in ReadChoices :
        /\ Consume(l)
        /\ line' = l
        /\ IF l = <<>>
           THEN pc' = "stopped" /\ UNCHANGED <<title_line, scores_read, out, nyield, err>>
           ELSE IF l[1] = GT
           THEN QualBegin(l)
           ELSE UNCHANGED <<pc, title_line, scores_read, out, nyield, err>>
    /\ UNCHANGED <<seq_string, quality_string, reader, title2ids, writer, wrap,
                   resolved, sent, f_iter, q_iter, file>>

\* a readline() of the score lines: the scores of the line are added, or the
\* record ends, is checked and yielded
QualRead ==
    /\ pc = "qread"
    /\ \E l \in ReadChoices :
        /\ Consume(l)
        /\ line' = l
        /\ IF EndsScores(l)
           THEN /\ IF PhredOutOfRange(scores_read)
                   THEN Fail(Error("OutOfRange", <<"qual">>))
                   ELSE /\ out' = <<SeqRecord(UnknownSeq(Len(scores_read)),
                                              CalledIds(title_line).value[1],
                                              CalledIds(title_line).value[2],
                                              CalledIds(title_line).value[3],
                                              "phred_quality", scores_read)>>
                        /\ nyield' = nyield + 1
                        /\ pc' = "yielded"
                        /\ UNCHANGED err
                /\ UNCHANGED scores_read
           ELSE IF \E i \in 1..Len(SplitWords(l)) : ~IsInt(SplitWords(l)[i])
           THEN Fail(Error("ValueError", <<"invalid literal for int()", l>>))
                /\ UNCHANGED scores_read
           ELSE /\ scores_read' =
                    scores_read \o [i \in 1..Len(SplitWords(l)) |-> IntOf(SplitWords(l)[i])]
                /\ UNCHANGED <<pc, out, nyield, err>>
    /\ UNCHANGED <<title_line, seq_string, quality_string, reader, title2ids, writer,
                   wrap, resolved, sent, f_iter, q_iter, file>>

\* the caller pulls again: "if not line : return", else the next record
QualResume ==
    /\ pc = "yielded"
    /\ IF line = <<>>
       THEN pc' = "stopped" /\ out' = <<>> /\ UNCHANGED <<title_line, scores_read, nyield, err>>
       ELSE QualBegin(line)
    /\ UNCHANGED <<handle, open, last_read, line, seq_string, quality_string,
                   reader, title2ids, writer, wrap, resolved, sent, f_iter, q_iter, file>>

(* --------------- records written and read back (QUAL) ----------------- *)
\* records handed to the QUAL writer: every id and description with one
\* score, and every list of up to three scores 0 and 93
QualWritten ==
    {Record(p[1], p[2], Letters(1), Phred(<<31>>)) : p \in WriterIdsDescriptions}
    \cup {Scored(Len(q), Phred(q)) : q \in Strs({0, 93}, 3)}

WriteQual == WriteOne(QualWritten)

\* the file is closed and QualPhredIterator is started on it
StartReadingQual ==
    /\ pc = "writing"
    /\ pc' = "qskip"
    /\ UNCHANGED <<handle, open, last_read, line, title_line, seq_string,
                   quality_string, out, nyield, err, reader, title2ids, writer, wrap,
                   resolved, scores_read, sent, f_iter, q_iter, file>>

InitQualRoundTrip ==
    /\ handle = <<>>
    /\ open = FALSE
    /\ last_read = <<>>
    /\ pc = "writing"
    /\ line = <<>>
    /\ title_line = <<>>
    /\ seq_string = <<>>
    /\ quality_string = <<>>
    /\ out = <<>>
    /\ nyield = 0
    /\ err = NoError
    /\ reader = "qual"
    /\ title2ids = "None"
    /\ writer = "qual"
    /\ wrap \in Wraps
    /\ resolved = <<>>
    /\ scores_read = <<>>
    /\ sent = <<>>
    /\ f_iter = <<>>
    /\ q_iter = <<>>
    /\ file = <<>>

NextQualRoundTrip ==
    \/ WriteQual
    \/ StartReadingQual
    \/ QualSkip
    \/ QualRead
    \/ QualResume

SpecQualRoundTrip == InitQualRoundTrip /\ [][NextQualRoundTrip]_vars

(* ----------------------- PairedFastaQualIterator ---------------------- *)
\* most records in the FASTA stream and in the QUAL stream
MaxEntries == 3

LetterB == 98

Ids == {<<LetterA>>, <<LetterB>>}

\* records FastaIterator delivers: an id and a sequence
FastaRecords == {Record(id, id, Letters(1), <<>>) : id \in Ids}

\* records QualPhredIterator delivers: an id and a list of PHRED scores, one
\* or two of them
QualRecords ==
    {Record(id, id, UnknownSeq(Len(q)), "phred_quality" :> q) :
        id \in Ids, q \in {<<40>>, <<40, 30>>}}

\* an iterator over records: pos of them were delivered, done is set once
\* next() raised StopIteration
Iterator(items) == [items |-> items, pos |-> 0, done |-> FALSE]

\* next() with "except StopIteration: rec = None"; None is <<>>, a record r
\* is <<r>>
Pulled(it) == IF it.pos < Len(it.items) THEN <<it.items[it.pos + 1]>> ELSE <<>>

Advanced(it) ==
    IF it.pos < Len(it.items) THEN [it EXCEPT !.pos = it.pos + 1]
    ELSE [it EXCEPT !.done = TRUE]

\* a merger that takes the end of either file for the end of both
BothExhausted_Either(f_rec, q_rec) == f_rec = <<>> \/ q_rec = <<>>

\* f_rec is None and q_rec is None
BothExhausted(f_rec, q_rec) == f_rec = <<>> /\ q_rec = <<>>

\* a merger that compares only the lengths of the two ids
IdsDiffer_Len(f_rec, q_rec) == Len(f_rec.id) # Len(q_rec.id)

\* f_rec.id != q_rec.id
IdsDiffer(f_rec, q_rec) == f_rec.id # q_rec.id

\* a merger that only minds a QUAL record with too few scores
SizesDiffer_Fewer(f_rec, q_rec) ==
    Len(f_rec.seq) > Len(q_rec.letter_annotations["phred_quality"])

\* len(f_rec) != len(q_rec.letter_annotations["phred_quality"])
SizesDiffer(f_rec, q_rec) ==
    Len(f_rec.seq) # Len(q_rec.letter_annotations["phred_quality"])

\* f_rec.letter_annotations["phred_quality"] = q_rec.letter_annotations[...]
Merged(f_rec, q_rec) ==
    [f_rec EXCEPT !.letter_annotations =
        "phred_quality" :> q_rec.letter_annotations["phred_quality"]]

\* one turn of the "while True" loop, from the two pulls to break, raise or
\* yield
PairedNext ==
    /\ pc \in {"paired", "yielded"}
    /\ f_iter' = Advanced(f_iter)
    /\ q_iter' = Advanced(q_iter)
    /\ LET f_rec == Pulled(f_iter)
           q_rec == Pulled(q_iter)
       IN  IF BothExhausted(f_rec, q_rec)
           THEN pc' = "stopped" /\ out' = <<>> /\ UNCHANGED <<nyield, err>>
           ELSE IF f_rec = <<>>
           THEN Fail(Error("UnbalancedStreams",
                           <<"FASTA file has more entries than the QUAL file.">>))
           ELSE IF q_rec = <<>>
           THEN Fail(Error("UnbalancedStreams",
                           <<"QUAL file has more entries than the FASTA file.">>))
           ELSE IF IdsDiffer(f_rec[1], q_rec[1])
           THEN Fail(Error("IdentifierMismatch", <<f_rec[1].id, q_rec[1].id>>))
           ELSE IF SizesDiffer(f_rec[1], q_rec[1])
           THEN Fail(Error("LengthMismatch", <<f_rec[1].id>>))
           ELSE /\ pc' = "yielded"
                /\ out' = <<Merged(f_rec[1], q_rec[1])>>
                /\ nyield' = nyield + 1
                /\ UNCHANGED err
    /\ UNCHANGED <<handle, open, last_read, line, title_line, seq_string,
                   quality_string,
                   reader, title2ids, writer, wrap, resolved, scores_read, sent, file>>

InitPaired ==
    /\ handle = <<>>
    /\ open = FALSE
    /\ last_read = <<>>
    /\ pc = "paired"
    /\ line = <<>>
    /\ title_line = <<>>
    /\ seq_string = <<>>
    /\ quality_string = <<>>
    /\ out = <<>>
    /\ nyield = 0
    /\ err = NoError
    /\ reader = "paired"
    /\ title2ids = "None"
    /\ writer = "None"
    /\ wrap = 0
    /\ resolved = <<>>
    /\ scores_read = <<>>
    /\ sent = <<>>
    /\ f_iter \in {Iterator(items) : items \in Strs(FastaRecords, MaxEntries)}
    /\ q_iter \in {Iterator(items) : items \in Strs(QualRecords, MaxEntries)}
    /\ file = <<>>

NextPaired == PairedNext

SpecPaired == InitPaired /\ [][NextPaired]_vars

(* ----------------- one score through the two scales ------------------ *)
\* the highest PHRED score of the Sanger and Illumina 1.3+ dialects
MaxPhred == 93

\* PHRED scores handed to solexa_quality_from_phred: every integer of the
\* range, one below it, and None
PhredInputs == {PyInt(q) : q \in (-1)..MaxPhred} \cup {PyNone}

\* solexa_quality_from_phred(phred_quality) on the score held in resolved
ToSolexa ==
    /\ pc = "phred"
    /\ IF resolved[1].type = "int" /\ resolved[1].val < 0
       THEN Fail(Error("ValueError", <<"PHRED qualities must be positive (or zero)">>))
            /\ UNCHANGED resolved
       ELSE /\ resolved' = <<solexa_quality_from_phred(resolved[1])>>
            /\ pc' = "solexa"
            /\ UNCHANGED <<out, nyield, err>>
    /\ UNCHANGED <<handle, open, last_read, line, title_line, seq_string,
                   quality_string, reader, title2ids, writer, wrap, scores_read,
                   sent, f_iter, q_iter, file>>

\* phred_quality_from_solexa(solexa_quality) on the result
ToPhred ==
    /\ pc = "solexa"
    /\ resolved' = <<phred_quality_from_solexa(resolved[1])>>
    /\ pc' = "back"
    /\ UNCHANGED <<handle, open, last_read, line, title_line, seq_string,
                   quality_string, out, nyield, err, reader, title2ids, writer,
                   wrap, scores_read, sent, f_iter, q_iter, file>>

\* FastqSolexaWriter.write_record on the record holding the PHRED score;
\* the file is then closed and FastqSolexaIterator started on it
WriteSolexa ==
    /\ pc = "phred"
    /\ LET call == WriterStep(writer, sent[1], wrap)
       IN  /\ handle' = handle \o call.value
           /\ resolved' = call.qualities
           /\ IF call.ok
              THEN pc' = "skip" /\ UNCHANGED err
              ELSE pc' = "write_error" /\ err' = call.err
    /\ UNCHANGED <<open, last_read, line, title_line, seq_string, quality_string,
                   out, nyield, reader, title2ids, writer, wrap, scores_read,
                   sent, f_iter, q_iter, file>>

InitScales ==
    /\ handle = <<>>
    /\ open = FALSE
    /\ last_read = <<>>
    /\ pc = "phred"
    /\ line = <<>>
    /\ title_line = <<>>
    /\ seq_string = <<>>
    /\ quality_string = <<>>
    /\ out = <<>>
    /\ nyield = 0
    /\ err = NoError
    /\ reader = "solexa"
    /\ title2ids = "None"
    /\ writer = "fastq-solexa"
    /\ wrap = 0
    /\ \E q \in PhredInputs :
        /\ resolved = <<q>>
        /\ sent = <<Scored(1, "phred_quality" :> <<q>>)>>
    /\ scores_read = <<>>
    /\ f_iter = <<>>
    /\ q_iter = <<>>
    /\ file = <<>>

NextScales ==
    \/ ToSolexa
    \/ ToPhred
    \/ WriteSolexa
    \/ SkipLine
    \/ SeqFirst
    \/ SeqMore
    \/ QualFirst
    \/ QualMore
    \/ Resume

SpecScales == InitScales /\ [][NextScales]_vars

(* ------------------ the tokenizer on a file as given ------------------ *)
\* file is the whole text the handle was opened on, handle what is left of
\* it to read.

\* lines a file holds at most
MaxLines == 8

\* the lines of a file: the blank line, "@" and "+"; each of them can be a
\* marker line, or a line of sequence or of quality text
FileLines == {<<NL>>, <<AT, NL>>, <<PLUS, NL>>}

\* the text of a file that holds the lines given
RECURSIVE Text(_)
Text(lines) == IF lines = <<>> THEN <<>> ELSE Head(lines) \o Text(Tail(lines))

Files == {Text(lines) : lines \in Strs(FileLines, MaxLines)}

InitFile ==
    /\ file \in Files
    /\ handle = file
    /\ open = FALSE
    /\ last_read = <<>>
    /\ pc = "skip"
    /\ line = <<>>
    /\ title_line = <<>>
    /\ seq_string = <<>>
    /\ quality_string = <<>>
    /\ out = <<>>
    /\ nyield = 0
    /\ err = NoError
    /\ reader = "general"
    /\ title2ids = "None"
    /\ writer = "None"
    /\ wrap = 0
    /\ resolved = <<>>
    /\ scores_read = <<>>
    /\ sent = <<>>
    /\ f_iter = <<>>
    /\ q_iter = <<>>

NextFile == TokenizerNext

SpecFile == InitFile /\ [][NextFile]_vars

\* the caller goes on pulling records until the iterator stops or fails
SpecFilePulled == SpecFile /\ WF_vars(NextFile)

(* --------------- the tokenizer as a function of a file ---------------- *)
\* What list(FastqGeneralIterator(handle)) gives for a file: the triples
\* yielded, in order, and how the iteration ends ("stopped", or the kind of
\* the error raised).  The file is taken as the list of its lines.

\* the lines readline() returns for a text, one after the other
RECURSIVE SplitLines(_)
SplitLines(text) ==
    IF text = <<>> THEN <<>> ELSE <<readline(text)>> \o SplitLines(AfterLine(text))

Ending(kind) == [records |-> <<>>, end |-> kind]

\* the record is yielded, then the iteration goes on
Then(record, rest) == [records |-> <<record>> \o rest.records, end |-> rest.end]

\* handle.readline() on the lines left: "" at the end of the file
NextLine(lines) == IF lines = <<>> THEN <<>> ELSE Head(lines)

Rest(lines) == IF lines = <<>> THEN <<>> ELSE Tail(lines)

RECURSIVE RecordLoop(_), SequenceLoop(_, _, _), QualityLoop(_, _, _, _)

\* the loop over more quality lines, the length check and the yield
QualityLoop(title, seq, quality, lines) ==
    IF QualityEnds(NextLine(lines), quality, Len(seq))
    THEN IF LengthsDiffer(Len(seq), quality) THEN Ending("LengthMismatch")
         ELSE Then([title |-> title, sequence |-> seq, quality |-> quality],
                   IF lines = <<>> THEN Ending("stopped") ELSE RecordLoop(lines))
    ELSE QualityLoop(title, seq, quality \o rstrip(Head(lines)), Tail(lines))

\* the loop over more sequence lines, up to the "+" line, and the first
\* quality line
SequenceLoop(title, seq, lines) ==
    IF lines = <<>> THEN Ending("MalformedRecord")
    ELSE IF Head(lines)[1] = PLUS
    THEN IF CaptionsDiffer(rstrip(From1(Head(lines))), title)
         THEN Ending("TitleMismatch")
         ELSE QualityLoop(title, seq, strip(NextLine(Tail(lines))), Rest(Tail(lines)))
    ELSE SequenceLoop(title, seq \o rstrip(Head(lines)), Tail(lines))

\* the record loop, entered with a header line first of the lines: the
\* title and the first sequence line
RecordLoop(lines) ==
    SequenceLoop(rstrip(From1(Head(lines))), rstrip(NextLine(Tail(lines))),
                 Rest(Tail(lines)))

\* the loop that skips text before the first record
RECURSIVE SkipLoop(_)
SkipLoop(lines) ==
    IF lines = <<>> THEN Ending("stopped")
    ELSE IF StartsRecord(Head(lines)) THEN RecordLoop(lines)
    ELSE SkipLoop(Tail(lines))

Tokenized(text) == SkipLoop(SplitLines(text))

(* ===================== properties of the tokenizer ==================== *)

\* C1: every triple FastqGeneralIterator yields has a sequence and a
\* quality text of the same length, and they are the texts collected from
\* the stream (nothing trimmed, nothing padded).
C1_YieldedLengthsEqual ==
    (pc = "yielded" /\ reader = "general") =>
        /\ Len(out[1].sequence) = Len(out[1].quality)
        /\ out[1].sequence = seq_string
        /\ out[1].quality = quality_string

C1_Witness ==
    /\ pc = "yielded"
    /\ reader = "general"
    /\ Len(out[1].sequence) = MaxLen
    /\ Len(out[1].quality) = MaxLen

\* a step that read a line starting with "@"
ReadsAtLine == last_read' # <<>> /\ last_read'[1] = AT

\* the record is closed by the step: nothing is appended, the record is
\* yielded or the iterator fails, and the line read is the one held for the
\* next record
ClosesRecord ==
    /\ quality_string' = quality_string
    /\ pc' \in {"yielded", "error"}
    /\ line' = last_read'

\* the line read is appended to the quality text
AppendsLine ==
    /\ quality_string' = quality_string \o rstrip(last_read')
    /\ pc' = "qualloop"
    /\ UNCHANGED <<nyield, err, out>>

\* C2 as claimed: whenever a line starting with "@" is read in the quality
\* block (the first quality line included, when nothing is accumulated yet)
\* it closes the record iff the accumulated quality has reached the sequence
\* length, and is appended otherwise.
C2_AtLineEveryQualityLine ==
    [][ /\ (pc = "qualloop" /\ ReadsAtLine) =>
            IF Len(quality_string) >= seq_len THEN ClosesRecord ELSE AppendsLine
        /\ (pc = "qual1" /\ ReadsAtLine) =>
            IF 0 >= seq_len
            THEN pc' \in {"yielded", "error"}
            ELSE quality_string' = strip(last_read') /\ pc' = "qualloop"
      ]_vars

\* C2 (amended): the first quality line is always taken as quality text;
\* from the second quality line on, a line starting with "@" closes the
\* record iff the accumulated quality has reached the sequence length, and is
\* appended otherwise (so it never ends a record early).
C2_AtLineAfterFirstQualityLine ==
    [][ /\ (pc = "qualloop" /\ ReadsAtLine) =>
            IF Len(quality_string) >= seq_len THEN ClosesRecord ELSE AppendsLine
        /\ (pc = "qual1" /\ ReadsAtLine) =>
            (quality_string' = strip(last_read') /\ pc' = "qualloop"
             /\ UNCHANGED <<nyield, err, out>>)
      ]_vars

\* a "@" line was read in the quality loop while the quality was shorter than
\* the sequence, and was appended
C2_Witness ==
    /\ pc = "qualloop"
    /\ last_read = <<AT, NL>>
    /\ line = last_read
    /\ seq_len = 2
    /\ quality_string = <<PLUS, AT>>

\* the step that ends a quality block: end of file, or a header line
QualityBlockCloses ==
    /\ pc = "qualloop"
    /\ \/ last_read' = <<>>
       \/ (last_read'[1] = AT /\ Len(quality_string) >= Len(seq_string))

\* C3: when a quality block closes with len(quality) # len(sequence), the
\* tokenizer fails with LengthMismatch (title and both lengths reported) and
\* yields nothing; LengthMismatch is raised in no other case.
C3_LengthMismatchOnClose ==
    [][ /\ QualityBlockCloses =>
            IF Len(quality_string) # Len(seq_string)
            THEN /\ pc' = "error"
                 /\ err' = Error("LengthMismatch",
                                 <<title_line, Len(seq_string), Len(quality_string)>>)
                 /\ out' = <<>>
                 /\ nyield' = nyield
            ELSE err'.kind # "LengthMismatch"
        /\ (err.kind # "LengthMismatch" /\ err'.kind = "LengthMismatch") =>
            (QualityBlockCloses /\ Len(quality_string) # Len(seq_string))
      ]_vars

\* the stream ended with the quality still shorter than the sequence
C3_Witness ==
    /\ pc = "error"
    /\ err.kind = "LengthMismatch"
    /\ last_read = <<>>
    /\ Len(quality_string) < Len(seq_string)
    /\ quality_string # <<>>

\* C6: on the "+" line, a repeated title that is not empty and differs from
\* the record's title makes the tokenizer fail with TitleMismatch without a
\* yield; an empty one, or one equal to the title, is accepted.
C6_RepeatedTitle ==
    [][ (pc = "seqloop" /\ last_read' # <<>> /\ last_read'[1] = PLUS) =>
            LET second_title == rstrip(From1(last_read'))
            IN  IF second_title # <<>> /\ second_title # title_line
                THEN /\ pc' = "error"
                     /\ err'.kind = "TitleMismatch"
                     /\ out' = <<>>
                     /\ nyield' = nyield
                ELSE pc' = "qual1" /\ UNCHANGED <<err, nyield, seq_string>>
      ]_vars

\* an empty "+" line was accepted for a record with a title
C6_Witness ==
    /\ pc = "qual1"
    /\ last_read = <<PLUS, NL>>
    /\ title_line # <<>>

\* C7: a failure ends the iteration.  The step that raises yields nothing
\* and leaves the count of yielded records as it is; afterwards nothing
\* changes any more (no record, no resynchronisation); records are handed
\* out one per yield.
C7_FailureAborts ==
    [][ /\ (err # NoError) => UNCHANGED <<pc, err, out, nyield>>
        /\ (err = NoError /\ err' # NoError) =>
            (pc' = "error" /\ out' = <<>> /\ nyield' = nyield)
        /\ (pc' = "error") => err' # NoError
        /\ nyield' \in {nyield, nyield + 1}
        /\ (nyield' = nyield + 1) => (pc' = "yielded" /\ Len(out') = 1)
      ]_vars

\* the second record is the first to fail, in a dialect reader, on a score
\* out of range
C7_Witness ==
    /\ pc = "error"
    /\ nyield = 1
    /\ reader # "general"
    /\ err.kind = "OutOfRange"

(* =================== properties of the dialect readers ================ *)

\* the value a quality character stands for in the dialect read
Decoded(c) == c - (IF reader = "sanger" THEN 33 ELSE 64)

\* some quality character of the triple is outside the dialect's range
SomeOutOfRange ==
    \E i \in 1..Len(quality_string) :
        IF reader = "solexa"
        THEN Decoded(quality_string[i]) < -5
        ELSE Decoded(quality_string[i]) < 0 \/ Decoded(quality_string[i]) > 93

\* the record is rejected with OutOfRange iff a value is out of range, and
\* is yielded whole otherwise
RangeDecides ==
    IF SomeOutOfRange
    THEN /\ pc' = "error"
         /\ err'.kind = "OutOfRange"
         /\ out' = <<>>
         /\ nyield' = nyield
    ELSE /\ pc' = "yielded"
         /\ nyield' = nyield + 1
         /\ Len(out') = 1
         /\ Len(out'[1].seq) = Len(seq_string)
         /\ err' = NoError

\* C4 as claimed: a dialect reader rejects a record exactly when a decoded
\* quality value is outside the dialect's range (Sanger and Illumina 0..93,
\* Solexa >= -5), with OutOfRange, and never yields a rejected record.
C4_RejectsIffOutOfRange ==
    [][ (pc = "decode") => RangeDecides ]_vars

\* C4 (amended): the same for every record whose title holds a word (the
\* default title parsing takes the first word of the title as id).
C4_RejectsIffOutOfRangeTitled ==
    [][ (pc = "decode" /\ HasWord(title_line)) => RangeDecides ]_vars

\* a record with a value just above the range was rejected by the Illumina
\* reader
C4_Witness ==
    /\ pc = "error"
    /\ reader = "illumina"
    /\ err.kind = "OutOfRange"
    /\ HasWord(title_line)
    /\ quality_string = <<64, 158>>

(* ===================== properties of the round trip =================== *)

\* a record of the claim: a title that is not empty, one integer PHRED score
\* in 0..93 per letter
ClaimedRecord(r) ==
    /\ r.id # <<>> \/ r.description # <<>>
    /\ "phred_quality" \in DOMAIN r.letter_annotations
    /\ Len(r.letter_annotations["phred_quality"]) = Len(r.seq)
    /\ \A i \in 1..Len(r.seq) :
        /\ r.letter_annotations["phred_quality"][i].type = "int"
        /\ r.letter_annotations["phred_quality"][i].val \in 0..93

\* a record whose description is its title: it starts with the id as its
\* first word and does not end with whitespace
TitledRecord(r) ==
    /\ ClaimedRecord(r)
    /\ HasWord(r.description)
    /\ FirstWord(r.description) = r.id
    /\ r.description[Len(r.description)] \notin Whitespace

\* the record read has the id, description, sequence and scores of the
\* record written
SameRecord(read, written) ==
    /\ read.id = written.id
    /\ read.description = written.description
    /\ read.seq = written.seq
    /\ DOMAIN read.letter_annotations = {"phred_quality"}
    /\ read.letter_annotations["phred_quality"] =
        [i \in 1..Len(written.seq) |->
            written.letter_annotations["phred_quality"][i].val]

\* the records read back are the records written, in order, all of them
ReadBack ==
    /\ pc # "error"
    /\ (pc = "yielded") => (nyield <= Len(sent) /\ SameRecord(out[1], sent[nyield]))
    /\ (pc = "stopped") => (nyield = Len(sent))

FastaEntries == f_iter.items

QualEntries == q_iter.items

\* ids and lengths agree position by position
Agree ==
    \A i \in 1..Min(<<Len(FastaEntries), Len(QualEntries)>>) :
        /\ FastaEntries[i].id = QualEntries[i].id
        /\ Len(FastaEntries[i].seq) = Len(QualEntries[i].letter_annotations["phred_quality"])

\* out holds the FASTA record at position nyield with the scores of the QUAL
\* record at the same position
YieldedInOrder ==
    /\ nyield <= Min(<<Len(FastaEntries), Len(QualEntries)>>)
    /\ out[1].id = FastaEntries[nyield].id
    /\ out[1].seq = FastaEntries[nyield].seq
    /\ out[1].letter_annotations["phred_quality"] =
        QualEntries[nyield].letter_annotations["phred_quality"]

\* C8: for a FASTA stream of m records and a QUAL stream of n records that
\* agree position by position, the merged records come in order, the
\* iteration ends normally only when m = n and after m records, and it fails
\* only when m # n, with UnbalancedStreams, after min(m, n) records.
C8_YieldsMinThenEndsOrFails ==
    Agree =>
        /\ (pc = "yielded") => YieldedInOrder
        /\ (pc = "stopped") =>
            (Len(FastaEntries) = Len(QualEntries) /\ nyield = Len(FastaEntries))
        /\ (pc = "error") =>
            /\ Len(FastaEntries) # Len(QualEntries)
            /\ err.kind = "UnbalancedStreams"
            /\ nyield = Min(<<Len(FastaEntries), Len(QualEntries)>>)

\* 3 FASTA records and 2 QUAL records that agree: UnbalancedStreams after 2
\* merged records
C8_Witness ==
    /\ Agree
    /\ Len(FastaEntries) = 3
    /\ Len(QualEntries) = 2
    /\ pc = "error"
    /\ err.kind = "UnbalancedStreams"
    /\ nyield = 2

\* the same number of records in both: normal end after all of them
C8_WitnessBalanced ==
    /\ Agree
    /\ Len(FastaEntries) = 2
    /\ Len(QualEntries) = 2
    /\ pc = "stopped"
    /\ nyield = 2

\* C9 as claimed: when one stream has ended and the other still delivered a
\* record, the error names the file that has more entries: the QUAL file if
\* the FASTA stream ended, the FASTA file if the QUAL stream ended.
C9_NamesLongerFile ==
    (pc = "error" /\ err.kind = "UnbalancedStreams") =>
        /\ (f_iter.done /\ ~q_iter.done) =>
            err.msg = <<"QUAL file has more entries than the FASTA file.">>
        /\ (q_iter.done /\ ~f_iter.done) =>
            err.msg = <<"FASTA file has more entries than the QUAL file.">>

\* what the code does: it names the file that ran out as the one with more
\* entries
C9_NamesShorterFile ==
    (pc = "error" /\ err.kind = "UnbalancedStreams") =>
        /\ (f_iter.done /\ ~q_iter.done) =>
            err.msg = <<"FASTA file has more entries than the QUAL file.">>
        /\ (q_iter.done /\ ~f_iter.done) =>
            err.msg = <<"QUAL file has more entries than the FASTA file.">>

\* an empty FASTA file and a QUAL file of one record
C9_Witness ==
    /\ pc = "error"
    /\ err.kind = "UnbalancedStreams"
    /\ Len(FastaEntries) = 0
    /\ Len(QualEntries) = 1
    /\ f_iter.done
    /\ ~q_iter.done

\* the two records of the coming pull exist and have different ids
NextPairDiffers ==
    /\ pc \in {"paired", "yielded"}
    /\ f_iter.pos < Len(FastaEntries)
    /\ q_iter.pos < Len(QualEntries)
    /\ FastaEntries[f_iter.pos + 1].id # QualEntries[q_iter.pos + 1].id

\* C10: a pull that gets two records with different ids fails with
\* IdentifierMismatch and yields nothing, whatever else the streams hold;
\* every record yielded is the pair at one position; after a failure the
\* iterator does nothing more.
C10_StrictPositionalPairing ==
    [][ /\ NextPairDiffers =>
            /\ pc' = "error"
            /\ err'.kind = "IdentifierMismatch"
            /\ out' = <<>>
            /\ nyield' = nyield
        /\ (pc' = "yielded") =>
            /\ f_iter'.pos = nyield'
            /\ q_iter'.pos = nyield'
            /\ out'[1].id = FastaEntries[nyield'].id
            /\ out'[1].id = QualEntries[nyield'].id
        /\ pc # "error" ]_vars

\* IdentifierMismatch at the second pull, although the id of the second
\* FASTA record is the id of the first and third QUAL records
C10_Witness ==
    /\ pc = "error"
    /\ err.kind = "IdentifierMismatch"
    /\ nyield = 1
    /\ f_iter.pos = 2
    /\ Len(QualEntries) = 3
    /\ QualEntries[1].id = FastaEntries[2].id
    /\ QualEntries[3].id = FastaEntries[2].id
    /\ QualEntries[2].id # FastaEntries[2].id

\* the two records of the coming pull exist, have one id, and the QUAL
\* record has more or fewer scores than the FASTA record has letters
NextPairSizesDiffer ==
    /\ pc \in {"paired", "yielded"}
    /\ f_iter.pos < Len(FastaEntries)
    /\ q_iter.pos < Len(QualEntries)
    /\ FastaEntries[f_iter.pos + 1].id = QualEntries[q_iter.pos + 1].id
    /\ Len(FastaEntries[f_iter.pos + 1].seq) #
        Len(QualEntries[q_iter.pos + 1].letter_annotations["phred_quality"])

\* C11: a record the merger yields is the FASTA record of this pull with
\* the score list of the QUAL record of this pull, one score per letter; a
\* pull whose QUAL record has another number of scores than the FASTA
\* record has letters fails with LengthMismatch and yields nothing.
C11_MergedScores ==
    [][ /\ (pc' = "yielded") =>
            /\ out'[1].seq = FastaEntries[f_iter.pos + 1].seq
            /\ out'[1].letter_annotations["phred_quality"] =
                QualEntries[q_iter.pos + 1].letter_annotations["phred_quality"]
            /\ Len(out'[1].letter_annotations["phred_quality"]) = Len(out'[1].seq)
        /\ NextPairSizesDiffer =>
            /\ pc' = "error"
            /\ err'.kind = "LengthMismatch"
            /\ out' = <<>>
            /\ nyield' = nyield ]_vars

\* after one merged record, a QUAL record of two scores met a FASTA record
\* of one letter
C11_Witness ==
    /\ pc = "error"
    /\ err.kind = "LengthMismatch"
    /\ nyield = 1
    /\ f_iter.pos = 2
    /\ Len(FastaEntries[2].seq) = 1
    /\ Len(QualEntries[2].letter_annotations["phred_quality"]) = 2

(* ============ properties of the dialect readers, continued ============ *)

\* the annotation a dialect stores its scores under
NativeKey == IF reader = "solexa" THEN "solexa_quality" ELSE "phred_quality"

\* C12: a dialect reader stores for every quality character, in order, its
\* code point less the offset (33 for Sanger, 64 for Solexa and Illumina),
\* unconverted, Sanger and Illumina under phred_quality and Solexa under
\* solexa_quality, one score per letter of the sequence.
C12_StoresCodepointLessOffset ==
    [][ (pc = "decode" /\ pc' = "yielded") =>
            /\ DOMAIN out'[1].letter_annotations = {NativeKey}
            /\ Len(out'[1].letter_annotations[NativeKey]) = Len(quality_string)
            /\ \A i \in 1..Len(quality_string) :
                out'[1].letter_annotations[NativeKey][i] = Decoded(quality_string[i])
            /\ Len(out'[1].letter_annotations[NativeKey]) = Len(out'[1].seq) ]_vars

\* the Sanger reader read ";~" as 26, 93
C12_Witness ==
    /\ pc = "yielded"
    /\ reader = "sanger"
    /\ quality_string = <<59, 126>>
    /\ out[1].letter_annotations["phred_quality"] = <<26, 93>>

\* the Solexa reader read ";@" as -5, 0 and stored it as Solexa scores
C12_WitnessSolexa ==
    /\ pc = "yielded"
    /\ reader = "solexa"
    /\ quality_string = <<59, 64>>
    /\ out[1].letter_annotations["solexa_quality"] = <<-5, 0>>

\* the record yielded has the id, name and description the caller's function
\* returns for the title
OverrideUsed ==
    /\ (pc' = "yielded") =>
        /\ out'[1].id = Callback(title_line)[1]
        /\ out'[1].name = Callback(title_line)[2]
        /\ out'[1].description = Callback(title_line)[3]
    /\ (pc' = "error") => err'.kind = "OutOfRange"

\* C13 as claimed: with a title2ids function given, every dialect reader
\* yields each record with the id, name and description the function
\* returns for its title, and fails on nothing but a score out of range.
C13_OverrideUsedByEveryReader ==
    [][ (pc = "decode" /\ title2ids # "None") => OverrideUsed ]_vars

\* the same for FastqPhredIterator and FastqIlluminaIterator only
C13_OverrideUsedByPhredReaders ==
    [][ (pc = "decode" /\ title2ids # "None" /\ reader # "solexa") => OverrideUsed ]_vars

\* FastqSolexaIterator, given a title2ids function, yielded a record whose
\* id, name and description are the three characters of the title
C13_Witness ==
    /\ pc = "yielded"
    /\ reader = "solexa"
    /\ title2ids # "None"
    /\ title_line = <<LetterA, SPACE, AT>>
    /\ out[1].id = <<LetterA>>
    /\ out[1].name = <<SPACE>>
    /\ out[1].description = <<AT>>

\* id is the first run of characters of the title that are not whitespace
IsFirstToken(id, title) ==
    \E k \in 0..Len(title), n \in 1..Len(title) :
        /\ k + n <= Len(title)
        /\ \A i \in 1..k : title[i] \in Whitespace
        /\ id = SubSeq(title, k + 1, k + n)
        /\ \A i \in 1..n : id[i] \notin Whitespace
        /\ k + n = Len(title) \/ title[k + n + 1] \in Whitespace

\* the text after the first token and the whitespace that follows it, or the
\* whole title when it holds no whitespace
RestOfTitle(title) ==
    IF \A i \in 1..Len(title) : title[i] \notin Whitespace THEN title
    ELSE lstrip(SubSeq(lstrip(title), Len(FirstWord(title)) + 1, Len(lstrip(title))))

\* C14 as claimed: without a title2ids function the id of a record is the
\* first token of its title and the description is the text after that
\* token, or the whole title when the title holds no whitespace.
C14_DescriptionIsRest ==
    [][ (pc = "decode" /\ pc' = "yielded") =>
            /\ IsFirstToken(out'[1].id, title_line)
            /\ out'[1].description = RestOfTitle(title_line) ]_vars

\* C14 (amended): without a title2ids function the id and the name of a
\* record are the first token of its title and the description is the whole
\* title, the id included.
C14_DescriptionIsWholeTitle ==
    [][ (pc = "decode" /\ pc' = "yielded") =>
            /\ IsFirstToken(out'[1].id, title_line)
            /\ out'[1].name = out'[1].id
            /\ out'[1].description = title_line ]_vars

\* the title "a @" gave the id "a" and the description "a @"
C14_Witness ==
    /\ pc = "yielded"
    /\ title_line = <<LetterA, SPACE, AT>>
    /\ out[1].id = <<LetterA>>
    /\ out[1].description = <<LetterA, SPACE, AT>>

(* ====================== properties of the writers ===================== *)

\* the record the last call of write_record was given
Given == sent[Len(sent)]

\* a call of write_record has just been made
Called == sent # <<>>

\* the annotation the writer in use takes its scores from unconverted
Native == IF writer = "fastq-solexa" THEN "solexa_quality" ELSE "phred_quality"

Foreign == IF writer = "fastq-solexa" THEN "phred_quality" ELSE "solexa_quality"

\* the scores of the other annotation, converted one by one
Converted(scores) ==
    [i \in 1..Len(scores) |->
        IF writer = "fastq-solexa" THEN solexa_quality_from_phred(scores[i])
        ELSE phred_quality_from_solexa(scores[i])]

\* the QUAL writer composes and writes the title before it looks at the
\* scores: a failure of the title leaves the scores unresolved
ScoresLookedAt == ~(writer = "qual" /\ pc = "write_error" /\ err.kind = "IndexError")

\* C15: a writer takes the scores of its own annotation (phred_quality for
\* the Sanger, Illumina and QUAL writers, solexa_quality for the Solexa
\* writer) unconverted when the record has it, also when it has both;
\* otherwise it converts the scores of the other annotation one by one;
\* with neither annotation the write fails with MissingScores.
C15_ScoreResolution ==
    (Called /\ ScoresLookedAt) =>
        LET annotations == Given.letter_annotations
        IN  /\ (Native \in DOMAIN annotations) => (resolved = annotations[Native])
            /\ (Native \notin DOMAIN annotations /\ Foreign \in DOMAIN annotations) =>
                (resolved = Converted(annotations[Foreign]))
            /\ (Native \notin DOMAIN annotations /\ Foreign \notin DOMAIN annotations) =>
                (pc = "write_error" /\ err.kind = "MissingScores")
            /\ (pc = "write_error" /\ err.kind = "MissingScores") =>
                (DOMAIN annotations = {})

\* the Solexa writer wrote a record that has both annotations with its
\* Solexa score -5, as ";"
C15_Witness ==
    /\ Called
    /\ pc = "writing"
    /\ writer = "fastq-solexa"
    /\ DOMAIN Given.letter_annotations = {"phred_quality", "solexa_quality"}
    /\ resolved = <<PyInt(-5)>>
    /\ handle[Len(handle) - 1] = 59

\* the Sanger writer wrote Solexa scores 0, 10 as PHRED 3.010, 10.414
C15_WitnessConverted ==
    /\ Called
    /\ pc = "writing"
    /\ writer = "fastq"
    /\ DOMAIN Given.letter_annotations = {"solexa_quality"}
    /\ resolved = <<PyFloat(3010), PyFloat(10414)>>

\* no annotation: MissingScores
C15_WitnessMissing ==
    /\ Called
    /\ pc = "write_error"
    /\ err.kind = "MissingScores"
    /\ DOMAIN Given.letter_annotations = {}

\* a step is a call of write_record, on the record Offered, that wrote Wrote
IsWrite == sent' # sent

Offered == sent'[Len(sent')]

Wrote == SubSeq(handle', Len(handle) + 1, Len(handle'))

\* C16 as claimed: a call of write_record of any of the four writers that
\* fails because a score is None leaves the output as it was before the
\* call.
C16_NothingWrittenOnNone ==
    [][ (IsWrite /\ pc' = "write_error" /\ err'.kind = "MissingScore") =>
            handle' = handle ]_vars

\* the same for the three FASTQ writers only
C16_NothingWrittenOnNoneFastq ==
    [][ (IsWrite /\ writer # "qual" /\ pc' = "write_error" /\ err'.kind = "MissingScore") =>
            handle' = handle ]_vars

\* the QUAL writer failed on a None score after it had written ">a"
C16_Witness ==
    /\ writer = "qual"
    /\ pc = "write_error"
    /\ err.kind = "MissingScore"
    /\ Len(sent) = 1
    /\ handle = <<GT, LetterA, NL>>

\* the offset a FASTQ writer adds to a score
WriterOffset == IF writer = "fastq" THEN 33 ELSE 64

\* the writer resolved scores for the record and every one of them is a
\* number that chr() takes once the offset is added and it is rounded
Encodable ==
    /\ DOMAIN Offered.letter_annotations # {}
    /\ \A i \in 1..Len(resolved') :
        /\ resolved'[i].type # "None"
        /\ ScoreCode(resolved'[i], WriterOffset) \in 0..255

\* a LengthMismatch is raised and nothing written exactly when the number
\* of scores is not the length of the sequence
MismatchDecides ==
    /\ (Len(resolved') # Len(Offered.seq)) =>
        (pc' = "write_error" /\ err'.kind = "LengthMismatch" /\ handle' = handle)
    /\ (handle' # handle) => (Len(resolved') = Len(Offered.seq))

\* C17 as claimed: a FASTQ writer fails with LengthMismatch, writing
\* nothing, whenever the number of scores it resolved for a record differs
\* from the length of the record's sequence, and writes a record only when
\* the two are equal.
C17_LengthMismatchWhenever ==
    [][ (IsWrite /\ writer # "qual" /\ Offered.seq # NoSeq
         /\ DOMAIN Offered.letter_annotations # {}) => MismatchDecides ]_vars

\* C17 (amended): the same for records whose resolved scores are all
\* numbers the writer can encode (none is None, each one rounded with the
\* offset added is a character code).
C17_LengthMismatchWhenEncodable ==
    [][ (IsWrite /\ writer # "qual" /\ Offered.seq # NoSeq /\ Encodable) =>
            MismatchDecides ]_vars

\* a FASTQ writer was given two scores for one letter after it had written
\* a record
C17_Witness ==
    /\ writer \in {"fastq", "fastq-solexa", "fastq-illumina"}
    /\ pc = "write_error"
    /\ err.kind = "LengthMismatch"
    /\ Len(sent) = 2
    /\ Len(resolved) = 2
    /\ Len(Given.seq) = 1
    /\ handle # <<>>

\* the title of the claim for a record
ExpectedTitle(r) ==
    IF IsFirstToken(r.id, r.description) THEN r.description
    ELSE IF r.description # <<>> THEN r.id \o <<SPACE>> \o r.description
    ELSE r.id

\* nothing in the scores or the sequence of the record keeps the writer
\* from writing it
ScoresGood ==
    /\ DOMAIN Offered.letter_annotations # {}
    /\ \A i \in 1..Len(resolved') : resolved'[i].type # "None"
    /\ writer # "qual" =>
        /\ Offered.seq # NoSeq
        /\ Len(resolved') = Len(Offered.seq)
        /\ \A i \in 1..Len(resolved') : ScoreCode(resolved'[i], WriterOffset) \in 0..255

IsPrefix(a, b) == Len(a) <= Len(b) /\ SubSeq(b, 1, Len(a)) = a

\* the call wrote the record under the title of the claim: a FASTQ writer
\* the four lines "@title", sequence, "+", quality, the QUAL writer a first
\* line ">title"
TitleWritten ==
    /\ pc' = "writing"
    /\ writer = "qual" => IsPrefix(<<GT>> \o ExpectedTitle(Offered) \o <<NL>>, Wrote)
    /\ writer # "qual" =>
        Wrote = <<AT>> \o ExpectedTitle(Offered) \o <<NL>> \o Offered.seq
                \o <<NL, PLUS, NL>>
                \o [i \in 1..Len(resolved') |-> ScoreCode(resolved'[i], WriterOffset)]
                \o <<NL>>

\* C18 as claimed: every writer writes a record under the description, if
\* the first token of the description is the id, else under the id, a space
\* and the description, if the description is not empty, else under the id;
\* a FASTQ writer writes exactly the four lines "@title", sequence, "+",
\* quality.
C18_TitleWritten ==
    [][ (IsWrite /\ ScoresGood) => TitleWritten ]_vars

\* the same for descriptions that are empty or hold a character that is
\* not whitespace
C18_TitleWrittenWordy ==
    [][ (IsWrite /\ ScoresGood
         /\ (Offered.description = <<>> \/ HasWord(Offered.description))) =>
            TitleWritten ]_vars

\* a writer failed with IndexError on a record whose description is a space
C18_Witness ==
    /\ Called
    /\ pc = "write_error"
    /\ err.kind = "IndexError"
    /\ Given.id = <<LetterA>>
    /\ Given.description = <<SPACE>>
    /\ handle = <<>>

\* the Sanger writer wrote id "a" and description "+" as "@a +"
C18_WitnessWritten ==
    /\ Called
    /\ pc = "writing"
    /\ writer = "fastq"
    /\ Given.description = <<PLUS>>
    /\ handle = <<AT, LetterA, SPACE, PLUS, NL, LetterA, NL, PLUS, NL, AT, NL>>

\* the first n of a list of texts, put together
RECURSIVE ConcatFirst(_, _)
ConcatFirst(seqs, n) == IF n = 0 THEN <<>> ELSE ConcatFirst(seqs, n - 1) \o seqs[n]

\* the words laid out in lines: a line break after each word whose index is
\* in breaks and after the last word, a single space after every other
Layout(words, breaks) ==
    ConcatFirst([i \in 1..Len(words) |->
                    words[i] \o (IF i \in breaks \/ i = Len(words) THEN <<NL>>
                                 ELSE <<SPACE>>)],
                Len(words))

\* the length of the line that holds the words a..b
RECURSIVE LineLen(_, _, _)
LineLen(words, a, b) ==
    IF a = b THEN Len(words[a]) ELSE LineLen(words, a, b - 1) + 1 + Len(words[b])

\* the words a..b are one line of the layout
IsLine(words, breaks, a, b) ==
    /\ a <= b
    /\ a = 1 \/ (a - 1) \in breaks
    /\ b = Len(words) \/ b \in breaks
    /\ \A k \in a..(b - 1) : k \notin breaks

\* what the QUAL writer wrote after the title line
QualityText == SubSeq(Wrote, LineEnd(Wrote) + 1, Len(Wrote))

\* C19: the quality lines QualPhredWriter writes for a record hold the
\* score texts of the record, whole and in order, with single spaces
\* between those of one line; with wrap = w > 0 no line is longer than w
\* unless it holds one score text only; with wrap 0 (or None) there is one
\* line.
C19_WrapsWholeTokens ==
    [][ (IsWrite /\ writer = "qual" /\ pc' = "writing") =>
            LET words == [i \in 1..Len(resolved') |-> ScoreText(resolved'[i])]
                n == Len(resolved')
            IN  /\ wrap > 0 =>
                    \E breaks \in SUBSET (1..(n - 1)) :
                        /\ QualityText = Layout(words, breaks)
                        /\ \A a \in 1..n, b \in 1..n :
                            IsLine(words, breaks, a, b) =>
                                (a = b \/ LineLen(words, a, b) <= wrap)
                /\ wrap = 0 =>
                    QualityText = (IF n = 0 THEN <<NL>> ELSE Layout(words, {})) ]_vars

\* with wrap 5 the scores 0, 0, 93 were written as "0 0" and "93"
C19_Witness ==
    /\ writer = "qual"
    /\ wrap = 5
    /\ pc = "writing"
    /\ handle = <<GT, LetterA, NL, 48, SPACE, 48, NL, 57, 51, NL>>

\* with wrap 1 every score is on a line of its own, longer than the wrap
C19_WitnessNarrow ==
    /\ writer = "qual"
    /\ wrap = 1
    /\ pc = "writing"
    /\ handle = <<GT, LetterA, NL, 57, 51, NL, 48, NL>>

\* without wrap the scores are on one line
C19_WitnessNoWrap ==
    /\ writer = "qual"
    /\ wrap = 0
    /\ pc = "writing"
    /\ handle = <<GT, LetterA, NL, 57, 51, SPACE, 48, SPACE, 57, 51, NL>>

(* =================== properties of the QUAL round trip ================ *)

\* a record of the claim: a title that is not empty and integer PHRED
\* scores in 0..93
QualClaimedRecord(r) ==
    /\ r.id # <<>> \/ r.description # <<>>
    /\ "phred_quality" \in DOMAIN r.letter_annotations
    /\ \A i \in 1..Len(r.letter_annotations["phred_quality"]) :
        /\ r.letter_annotations["phred_quality"][i].type = "int"
        /\ r.letter_annotations["phred_quality"][i].val \in 0..93

\* such a record whose id is one word and whose description is empty or
\* holds a character that is not whitespace
QualWordIdRecord(r) ==
    /\ QualClaimedRecord(r)
    /\ r.id # <<>>
    /\ \A i \in 1..Len(r.id) : r.id[i] \notin Whitespace
    /\ r.description = <<>> \/ HasWord(r.description)

\* the records read so far are the records written, by id and scores, in
\* order, and at the end all of them
QualReadBack ==
    /\ pc # "error"
    /\ (pc = "yielded") =>
        /\ nyield <= Len(sent)
        /\ out[1].id = sent[nyield].id
        /\ out[1].letter_annotations["phred_quality"] =
            [i \in 1..Len(sent[nyield].letter_annotations["phred_quality"]) |->
                sent[nyield].letter_annotations["phred_quality"][i].val]
    /\ (pc = "stopped") => (nyield = Len(sent))

Reading == pc \notin {"writing", "write_error"}

\* C20 as claimed: any records with titles that are not empty and integer
\* PHRED scores in 0..93, written by QualPhredWriter with any wrap, are
\* read back by QualPhredIterator as the same number of records with the
\* same ids and the same score lists in the same order.
C20_QualRoundTripAnyRecord ==
    (Reading /\ \A i \in 1..Len(sent) : QualClaimedRecord(sent[i])) => QualReadBack

\* C20 (amended): the same for records whose id is one word (not empty, no
\* whitespace in it) and whose description is empty or holds a character
\* that is not whitespace.
C20_QualRoundTripWordId ==
    (Reading /\ \A i \in 1..Len(sent) : QualWordIdRecord(sent[i])) => QualReadBack

\* with wrap 5, the scores 0, 0, 93, written on two lines, and a second
\* record were read back
C20_Witness ==
    /\ pc = "stopped"
    /\ wrap = 5
    /\ Len(sent) = 2
    /\ nyield = 2
    /\ \A i \in 1..2 : QualWordIdRecord(sent[i])
    /\ sent[1].letter_annotations["phred_quality"] = <<PyInt(0), PyInt(0), PyInt(93)>>
    /\ sent[2].description = <<PLUS>>

(* ============== properties of the tokenizer, continued ================ *)

\* the quality text collected so far is as long as the sequence: the
\* record's quality block is complete and a new record is expected
QualityComplete == pc = "qualloop" /\ Len(quality_string) = seq_len

\* a step that read a line that does not start with "@"
ReadsOtherLine == last_read' # <<>> /\ last_read'[1] # AT

\* C21 as claimed: a line that does not start with "@", read when the
\* quality block of the previous record is complete, makes the tokenizer
\* fail with MalformedRecord.
C21_OtherLineIsMalformed ==
    [][ (QualityComplete /\ ReadsOtherLine) =>
            /\ pc' = "error"
            /\ err'.kind = "MalformedRecord"
            /\ out' = <<>>
            /\ nyield' = nyield ]_vars

\* what the tokenizer does instead: the line is appended to the quality
\* text, and the iterator goes on reading quality lines
C21_OtherLineIsQuality ==
    [][ (pc = "qualloop" /\ ReadsOtherLine) => AppendsLine ]_vars

\* the check at the top of the record loop never fails: the line it looks
\* at always starts with "@"
C21_HeaderCheckNeverFails ==
    err.msg # <<"Records in Fastq files should start with '@' character">>

\* the quality block was complete, a line "+" was read and went into the
\* quality text, which is now longer than the sequence
C21_Witness ==
    /\ pc = "qualloop"
    /\ err = NoError
    /\ last_read = <<PLUS, NL>>
    /\ Len(quality_string) = seq_len + 1
    /\ quality_string[Len(quality_string)] = PLUS

\* C22: every line read before the first line that starts with "@" is
\* skipped: no error, no record, and nothing of it is kept in the title, the
\* sequence or the quality; when the stream ends before any such line the
\* iterator stops having yielded zero records and raised no error.
C22_LeadingLinesSkipped ==
    [][ /\ (pc = "skip") =>
            (nyield = 0 /\ err = NoError /\ out = <<>> /\ title_line = <<>>
             /\ seq_string = <<>> /\ quality_string = <<>>)
        /\ (pc = "skip" /\ ReadsOtherLine) =>
            /\ pc' = "skip"
            /\ UNCHANGED <<title_line, seq_string, quality_string, out, nyield, err>>
        /\ (pc = "skip" /\ pc' # "skip" /\ last_read' = <<>>) =>
            (pc' = "stopped" /\ nyield' = 0 /\ err' = NoError /\ out' = <<>>)
        /\ (pc = "skip" /\ ReadsAtLine) =>
            (pc' = "seq1" /\ title_line' = rstrip(From1(last_read')) /\ err' = NoError)
      ]_vars

\* the line "+ " was read before any header and skipped
C22_Witness ==
    /\ pc = "skip"
    /\ last_read = <<PLUS, SPACE, NL>>
    /\ line = last_read
    /\ err = NoError
    /\ nyield = 0

\* a stream ended without a header line: the iterator stopped with nothing
\* yielded
C22_WitnessNoHeader ==
    /\ pc = "stopped"
    /\ title_line = <<>>
    /\ nyield = 0
    /\ err = NoError
    /\ ~open

(* ============ properties of the dialect readers, concluded ============ *)

\* a quality text as the Illumina 1.3+ dialect writes it: PHRED scores 0..93
\* at offset 64
IlluminaEncoded(quality) ==
    \A i \in 1..Len(quality) : quality[i] - SOLEXA_SCORE_OFFSET \in 0..93

\* a quality text as the Solexa dialect writes it: Solexa scores from -5 at
\* offset 64
SolexaEncoded(quality) ==
    \A i \in 1..Len(quality) : quality[i] - SOLEXA_SCORE_OFFSET \in (-5)..93

\* a quality text as the Sanger dialect writes it: PHRED scores 0..93 at
\* offset 33
SangerEncoded(quality) ==
    \A i \in 1..Len(quality) : quality[i] - SANGER_SCORE_OFFSET \in 0..93

\* a low-quality base in the Illumina 1.3+ encoding: a PHRED score below 10
LowQualityBase(c) == c - SOLEXA_SCORE_OFFSET \in 0..9

\* the step rejects the record with OutOfRange
RejectsOutOfRange ==
    /\ pc' = "error"
    /\ err'.kind = "OutOfRange"
    /\ out' = <<>>
    /\ nyield' = nyield

\* a reader at its loop body, on a record whose title holds a word
Decoding(r) == pc = "decode" /\ reader = r /\ HasWord(title_line)

\* C23 as claimed: Illumina 1.3+ data holding a low-quality base, read with
\* the Sanger reader, is rejected with OutOfRange; Solexa data holding a
\* negative score, read with the Illumina 1.3+ reader, is rejected with
\* OutOfRange.
C23_WrongOffsetDetected ==
    [][ /\ ( /\ Decoding("sanger")
             /\ IlluminaEncoded(quality_string)
             /\ \E i \in 1..Len(quality_string) : LowQualityBase(quality_string[i]) )
            => RejectsOutOfRange
        /\ ( /\ Decoding("illumina")
             /\ SolexaEncoded(quality_string)
             /\ \E i \in 1..Len(quality_string) : quality_string[i] - SOLEXA_SCORE_OFFSET < 0 )
            => RejectsOutOfRange
      ]_vars

\* C23 (amended): the Sanger reader takes an Illumina 1.3+ score q for
\* q + 31, so it rejects Illumina 1.3+ data exactly when a score is above 62
\* and yields it, 31 too high, otherwise (a low-quality base is never
\* noticed); the Illumina 1.3+ reader rejects Solexa data holding a negative
\* score, and Sanger data holding a score below 31.
C23_WrongOffsetDetectedOneWay ==
    [][ /\ (Decoding("sanger") /\ IlluminaEncoded(quality_string)) =>
            IF \E i \in 1..Len(quality_string) : quality_string[i] - SOLEXA_SCORE_OFFSET > 62
            THEN RejectsOutOfRange
            ELSE /\ pc' = "yielded"
                 /\ out'[1].letter_annotations["phred_quality"] =
                        [i \in 1..Len(quality_string) |->
                            quality_string[i] - SOLEXA_SCORE_OFFSET + 31]
        /\ ( /\ Decoding("illumina")
             /\ SolexaEncoded(quality_string)
             /\ \E i \in 1..Len(quality_string) : quality_string[i] - SOLEXA_SCORE_OFFSET < 0 )
            => RejectsOutOfRange
        /\ ( /\ Decoding("illumina")
             /\ SangerEncoded(quality_string)
             /\ \E i \in 1..Len(quality_string) : quality_string[i] - SANGER_SCORE_OFFSET < 31 )
            => RejectsOutOfRange
      ]_vars

\* the Illumina 1.3+ reader rejected the Solexa scores -5, 0
C23_Witness ==
    /\ pc = "error"
    /\ reader = "illumina"
    /\ HasWord(title_line)
    /\ quality_string = <<59, 64>>
    /\ err.kind = "OutOfRange"

\* the Sanger reader read the Illumina 1.3+ scores 0, 62 as 31, 93
C23_WitnessUndetected ==
    /\ pc = "yielded"
    /\ reader = "sanger"
    /\ quality_string = <<64, 126>>
    /\ out[1].letter_annotations["phred_quality"] = <<31, 93>>

\* the Sanger reader rejected the Illumina 1.3+ scores 0, 63
C23_WitnessHigh ==
    /\ pc = "error"
    /\ reader = "sanger"
    /\ HasWord(title_line)
    /\ quality_string = <<64, 127>>
    /\ err.kind = "OutOfRange"

(* ================== properties of the scale conversions =============== *)

\* the PHRED score the conversions started from
PhredGiven == sent[1].letter_annotations["phred_quality"][1]

C24_WitnessHigh ==
    /\ pc = "back"
    /\ PhredGiven = PyInt(MaxPhred)
    /\ RoundMilli(resolved[1].val) = MaxPhred

\* PHRED 0 became the floor -5.0 and came back as 1.193
C24_WitnessFloor ==
    /\ pc = "back"
    /\ PhredGiven = PyInt(0)
    /\ resolved = <<PyFloat(1193)>>

\* the record "a" written by a FASTQ writer with the one quality character c
WrittenWith(c) == <<AT, LetterA, NL, LetterA, NL, PLUS, NL, c, NL>>

\* C25: solexa_quality_from_phred never returns a value below -5.0.  For a
\* PHRED score above zero the result is the floor -5.0 or the value whose
\* conversion back is the score (and never above the score); for zero it is
\* exactly -5.0; for None it is None; a negative score raises and nothing is
\* returned or written.  So the character the Solexa writer writes for a
\* PHRED score from 0 on decodes to -5 or more, and the Solexa reader yields
\* the record read back, with no OutOfRange.
C25_SolexaFloor ==
    [][ /\ (pc = "phred" /\ pc' = "solexa") =>
            /\ (PhredGiven.type = "None") => (resolved'[1] = PyNone)
            /\ (PhredGiven.type = "int") =>
                /\ PhredGiven.val >= 0
                /\ resolved'[1].type = "float"
                /\ resolved'[1].val >= -5000
                /\ resolved'[1].val <= 1000 * PhredGiven.val
                /\ (PhredGiven.val = 0) => (resolved'[1].val = -5000)
                /\ (PhredGiven.val > 0) =>
                    \/ resolved'[1].val = -5000
                    \/ PhredFromSolexaFloat(resolved'[1].val) = 1000 * PhredGiven.val
        /\ (pc = "phred" /\ PhredGiven.type = "int" /\ PhredGiven.val < 0) =>
            /\ pc' \in {"error", "write_error"}
            /\ err' = Error("ValueError", <<"PHRED qualities must be positive (or zero)">>)
            /\ handle' = <<>>
            /\ out' = <<>>
        /\ (pc = "phred" /\ pc' \notin {"solexa", "error"}
            /\ PhredGiven.type = "int" /\ PhredGiven.val >= 0) =>
            /\ pc' = "skip"
            /\ \E c \in 0..255 :
                /\ handle' = WrittenWith(c)
                /\ c - SOLEXA_SCORE_OFFSET >= -5
                /\ c - SOLEXA_SCORE_OFFSET = RoundMilli(resolved'[1].val)
        /\ (pc = "qualloop" /\ pc' # "qualloop") =>
            /\ pc' = "yielded"
            /\ err' = NoError
            /\ Len(out'[1].letter_annotations["solexa_quality"]) = 1
            /\ out'[1].letter_annotations["solexa_quality"][1] >= -5
            /\ out'[1].letter_annotations["solexa_quality"][1]
                   = quality_string[1] - SOLEXA_SCORE_OFFSET
      ]_vars

\* PHRED 1, which without the floor would be Solexa -5.868, was written as
\* ";" and read back by the Solexa reader as -5
C25_Witness ==
    /\ pc = "yielded"
    /\ PhredGiven = PyInt(1)
    /\ resolved = <<PyFloat(-5000)>>
    /\ quality_string = <<59>>
    /\ out[1].letter_annotations["solexa_quality"] = <<-5>>

\* solexa_quality_from_phred(-1) raised
C25_WitnessNegative ==
    /\ pc = "error"
    /\ PhredGiven = PyInt(-1)
    /\ resolved = <<PyInt(-1)>>
    /\ err.kind = "ValueError"

\* solexa_quality_from_phred(None) returned None
C25_WitnessNone ==
    /\ pc = "solexa"
    /\ PhredGiven = PyNone
    /\ resolved = <<PyNone>>

(* ============ properties of the tokenizer on a file given ============= *)

\* the part of the file read so far
Consumed == SubSeq(file, 1, Len(file) - Len(handle))

\* the step calls readline() once: it takes the next line of the file, or
\* finds the end of the file
ReadsOneLine ==
    /\ last_read' = readline(handle)
    /\ handle' = AfterLine(handle)

\* the step reads nothing
ReadsNothing == UNCHANGED <<handle, last_read, open>>

IsSuffix(a, b) ==
    Len(a) <= Len(b) /\ SubSeq(b, Len(b) - Len(a) + 1, Len(b)) = a

\* the step at which a record is yielded
Yields == pc # "yielded" /\ pc' = "yielded"

\* C26: the step that yields a record reads one line, which is the first
\* line after the record's quality block: the end of the file, or the
\* header of the next record (a line starting with "@", not taken into the
\* quality text; the line read before it was a line of the quality block,
\* to which blank lines after the quality text belong).  That line is
\* held; the next pull reads nothing and takes the held line as the header
\* of the next record, after which reading goes on with the line that
\* follows it in the file.  Every other step reads exactly one line, so what
\* has been read is always a prefix of the file, and one record is yielded
\* per pull.
C26_BoundedReadAhead ==
    [][ /\ (file = Consumed \o handle) /\ (file = Consumed' \o handle')
        /\ (pc # "yielded") => ReadsOneLine
        /\ Yields =>
            /\ pc = "qualloop"
            /\ last_read' = <<>> \/ last_read'[1] = AT
            /\ line' = last_read'
            /\ quality_string' = quality_string
            /\ out'[1].quality = quality_string
            /\ IsSuffix(strip(last_read), quality_string)
            /\ nyield' = nyield + 1
            /\ Len(out') = 1
        /\ (pc = "yielded") =>
            /\ ReadsNothing
            /\ nyield' = nyield
            /\ out' = <<>>
            /\ IF line = <<>>
               THEN pc' = "stopped"
               ELSE /\ pc' = "seq1"
                    /\ IsSuffix(line, Consumed)
                    /\ title_line' = rstrip(From1(line))
      ]_vars

\* the first record of a file of two is yielded: the header of the second
\* has been read and is held, the three lines after it have not been read
C26_Witness ==
    /\ pc = "yielded"
    /\ nyield = 1
    /\ file = Text(<<<<AT, NL>>, <<AT, NL>>, <<PLUS, NL>>, <<PLUS, NL>>,
                     <<AT, NL>>, <<PLUS, NL>>, <<PLUS, NL>>, <<AT, NL>>>>)
    /\ line = <<AT, NL>>
    /\ handle = Text(<<<<PLUS, NL>>, <<PLUS, NL>>, <<AT, NL>>>>)

\* the second record of that file is yielded at the end of the file
C26_WitnessSecond ==
    /\ pc = "yielded"
    /\ nyield = 2
    /\ file = Text(<<<<AT, NL>>, <<AT, NL>>, <<PLUS, NL>>, <<PLUS, NL>>,
                     <<AT, NL>>, <<PLUS, NL>>, <<PLUS, NL>>, <<AT, NL>>>>)
    /\ out[1] = [title |-> <<>>, sequence |-> <<PLUS>>, quality |-> <<AT>>]
    /\ line = <<>>
    /\ handle = <<>>

(* =============== properties of the writers, continued ================= *)

\* round(s): a score rounded to the nearest integer, a tie away from zero
RoundScore(q) == IF q.type = "int" THEN q.val ELSE RoundMilli(q.val)

\* the quality line a FASTQ writer wrote for the record, without its "\n"
QualityWritten == SubSeq(Wrote, Len(Wrote) - Len(resolved'), Len(Wrote) - 1)

\* a FASTQ writer wrote the record offered
FastqWrote == IsWrite /\ writer # "qual" /\ pc' = "writing"

\* C27 as claimed: the character a FASTQ writer writes for a score s that
\* is not None has the code point round(s) + offset, the score itself being
\* rounded to the nearest integer with a tie away from zero.
C27_CodeIsRoundedScorePlusOffset ==
    [][ FastqWrote =>
            \A i \in 1..Len(resolved') :
                QualityWritten[i] = RoundScore(resolved'[i]) + WriterOffset ]_vars

\* what the writers do: the offset is added first and the sum is rounded,
\* so that a tie goes upwards also for a negative score
C27_CodeIsRoundedSum ==
    [][ FastqWrote =>
            \A i \in 1..Len(resolved') :
                QualityWritten[i] =
                    (IF resolved'[i].type = "int"
                     THEN resolved'[i].val + WriterOffset
                     ELSE (resolved'[i].val + 1000 * WriterOffset + 500) \div 1000) ]_vars

\* the Solexa writer wrote the scores -2.5 and -2.4 as ">>" (62, 62), where
\* round(-2.5) + 64 is 61
C27_Witness ==
    /\ Called
    /\ pc = "writing"
    /\ writer = "fastq-solexa"
    /\ resolved = <<PyFloat(-2500), PyFloat(-2400)>>
    /\ SubSeq(handle, Len(handle) - 2, Len(handle) - 1) = <<62, 62>>

\* the Sanger writer wrote the scores 2.5 and 2.4 as "$#" (36, 35)
C27_WitnessPositive ==
    /\ Called
    /\ pc = "writing"
    /\ writer = "fastq"
    /\ resolved = <<PyFloat(2500), PyFloat(2400)>>
    /\ SubSeq(handle, Len(handle) - 2, Len(handle) - 1) = <<36, 35>>

\* the lines of a text that start with "@"
AtLines(text) ==
    {i \in 1..Len(text) : text[i] = AT /\ (i = 1 \/ text[i - 1] = NL)}

Ended == pc \in {"stopped", "error"}

\* how far the generator is from its end at the end of the file: a
\* readline() that finds the end of the file moves it on towards its return
\* or its raise
Rank ==
    CASE pc = "qual1" -> 6 [] pc = "qualloop" -> 5 [] pc = "yielded" -> 4
      [] pc = "seq1" -> 3 [] pc = "seqloop" -> 2 [] pc = "skip" -> 1
      [] OTHER -> 0

\* what is left to do: the text still to read, then the steps at its end
Measure == 8 * Len(handle) + Rank

\* C28: on a file, the iterator pulled again and again stops or fails after
\* finitely many steps.  Every step but the pull calls readline(), which
\* shortens what is left of the file unless the end is reached, and at the
\* end of the file the generator goes on to its return or its raise; so
\* every step brings the end nearer.  The records yielded are never more
\* than the lines of the file that start with "@".
C28_Terminates ==
    /\ <>Ended
    /\ [](nyield <= Cardinality(AtLines(file)))
    /\ [](nyield <= Cardinality(AtLines(Consumed)))
    /\ [][ /\ Measure' < Measure
           /\ (pc # "yielded" /\ handle # <<>>) => Len(handle') < Len(handle)
           /\ (pc = "yielded") => (handle' = handle /\ pc' \in {"stopped", "seq1"})
           /\ Ended' => (handle' = <<>> \/ pc' = "error") ]_vars

\* the iterator stopped at the end of a file of eight lines after two
\* records
C28_Witness ==
    /\ pc = "stopped"
    /\ nyield = 2
    /\ handle = <<>>
    /\ Len(file) = 2 * MaxLines
    /\ Cardinality(AtLines(file)) = 3

\* the iterator failed in a file with lines left to read
C28_WitnessFailed ==
    /\ pc = "error"
    /\ handle # <<>>
    /\ nyield = 0

(* ============== properties of the tokenizer, concluded ================ *)

\* C29: the line read right after a header is the first sequence text and
\* the line read right after the "+" line is the first quality text,
\* whatever their first character: neither a "+" nor a "@" at their start is
\* a marker there, and nothing is checked on them.  A line starting with "@"
\* closes a record only from the second quality line on.
C29_FirstLinesAreText ==
    [][ /\ (pc # "seq1" /\ pc' = "seq1") =>
            (line'[1] = AT /\ title_line' = rstrip(From1(line')))
        /\ (pc = "seq1") =>
            /\ seq_string' = rstrip(last_read')
            /\ pc' = "seqloop"
            /\ UNCHANGED <<title_line, quality_string, out, nyield, err>>
        /\ (pc # "qual1" /\ pc' = "qual1") =>
            (pc = "seqloop" /\ last_read'[1] = PLUS)
        /\ (pc = "qual1") =>
            /\ quality_string' = strip(last_read')
            /\ pc' = "qualloop"
            /\ UNCHANGED <<title_line, seq_string, out, nyield, err>>
        /\ (pc' \in {"yielded", "error"} /\ pc \notin {"yielded", "error"}
            /\ ReadsAtLine) =>
            (pc = "qualloop" /\ Len(quality_string) >= seq_len)
      ]_vars

\* a line "+" right after the header was taken as the sequence
C29_Witness ==
    /\ pc = "seqloop"
    /\ last_read = <<PLUS, NL>>
    /\ seq_string = <<PLUS>>
    /\ err = NoError

\* a line "@ " right after the "+" line of a record without sequence was
\* taken as the quality "@", which is longer than the sequence
C29_WitnessQuality ==
    /\ pc = "qualloop"
    /\ last_read = <<AT, SPACE, NL>>
    /\ seq_len = 0
    /\ quality_string = <<AT>>
    /\ err = NoError

\* a record without sequence and with an empty quality line was yielded
\* when the next header was read
C29_WitnessEmpty ==
    /\ reader = "general"
    /\ pc = "yielded"
    /\ last_read = <<AT, NL>>
    /\ out[1].sequence = <<>>
    /\ out[1].quality = <<>>

\* a line of whitespace only
IsBlank(l) == l # <<>> /\ strip(l) = <<>>

\* the text without its lines of whitespace only
WithoutBlankLines(text) ==
    Text(SelectSeq(SplitLines(text), LAMBDA l : ~IsBlank(l)))

\* the iteration over the file has given what the iteration over the text
\* gives: the same records so far, in order, and at its end the same number
\* of records and the same end
RunsAs(text) ==
    LET expected == Tokenized(text)
    IN  /\ (pc = "yielded") =>
            (nyield <= Len(expected.records) /\ out[1] = expected.records[nyield])
        /\ (pc = "stopped") =>
            (nyield = Len(expected.records) /\ expected.end = "stopped")
        /\ (pc = "error") =>
            (nyield = Len(expected.records) /\ expected.end = err.kind)

\* the function Tokenized gives what the iterator gives, step by step
C30_RunsAsTokenized == RunsAs(file)

\* C30 as claimed: lines of whitespace only, wherever they stand in or
\* after a record, add no characters, raise no error and give no record, so
\* that the iterator yields for a file what it yields for the file with
\* these lines removed.
C30_SameWithoutBlankLines == RunsAs(WithoutBlankLines(file))

\* what the iteration still gives from the loop it is in, for the lines
\* left to read
GoesOn(lines) ==
    CASE pc = "skip" -> SkipLoop(lines)
      [] pc = "seqloop" -> SequenceLoop(title_line, seq_string, lines)
      [] pc = "qualloop" -> QualityLoop(title_line, seq_string, quality_string, lines)

\* C30 (amended): a line of whitespace only read in the loop before the
\* first record, in the loop over more sequence lines or in the loop over
\* more quality lines (so also after a complete quality block and after the
\* last record) changes nothing but the position in the file, and the
\* iterator yields what it yields without that line.  Read right after a
\* header or right after the "+" line, it is the first sequence text or the
\* first quality text, empty: no character, no error, no record, but the
\* line has its place in the record.
C30_BlankLinesInLoops ==
    [][ /\ (pc \in {"skip", "seqloop", "qualloop"} /\ IsBlank(last_read')) =>
            /\ UNCHANGED <<pc, title_line, seq_string, quality_string, out, nyield, err>>
            /\ GoesOn(<<last_read'>> \o SplitLines(handle')) = GoesOn(SplitLines(handle'))
        /\ (pc = "seq1" /\ IsBlank(last_read')) =>
            /\ seq_string' = <<>>
            /\ pc' = "seqloop"
            /\ UNCHANGED <<title_line, quality_string, out, nyield, err>>
        /\ (pc = "qual1" /\ IsBlank(last_read')) =>
            /\ quality_string' = <<>>
            /\ pc' = "qualloop"
            /\ UNCHANGED <<title_line, seq_string, out, nyield, err>>
      ]_vars

\* a record without sequence, with a blank sequence line and a blank
\* quality line, was yielded at the end of the file; without the two lines
\* the file is "@", "+", which fails
C30_Witness ==
    /\ pc = "yielded"
    /\ file = Text(<<<<AT, NL>>, <<NL>>, <<PLUS, NL>>, <<NL>>>>)
    /\ nyield = 1
    /\ Tokenized(WithoutBlankLines(file)) = Ending("MalformedRecord")

\* blank lines before the record, among its sequence lines, among its
\* quality lines and after it were read, and the record yielded as without
\* them
C30_WitnessInLoops ==
    /\ pc = "stopped"
    /\ nyield = 1
    /\ file = Text(<<<<NL>>, <<AT, NL>>, <<AT, NL>>, <<NL>>, <<PLUS, NL>>,
                     <<AT, NL>>, <<NL>>, <<NL>>>>)
    /\ Tokenized(WithoutBlankLines(file)) = Tokenized(file)
    /\ Len(Tokenized(file).records) = 1

====
